---------------------------- MODULE Spec2Model ----------------------------
(***************************************************************************)
(* Model of the telegram-gallery client (src/src/components/Gallery.vue)   *)
(* and of the /api/gallery route of its server (src/server/index.js).      *)
(*                                                                         *)
(* An entry is represented by its id.  Ids are positive integers whose     *)
(* order is the server's _id order (a newer entry has a larger id).  The   *)
(* JavaScript null cursor is NULL (0), which is falsy like null and below  *)
(* every id.  List indexes stored in snapshots are 0-based as in the code. *)
(***************************************************************************)
EXTENDS Integers, Sequences, FiniteSets, TLC

\* Highest id the store ever issues.
MaxId == 2
\* Page size of the client.  Gallery.vue:16 sets 60; the model scales it down
\* so that a store of MaxId entries spans more than one page.
PAGE_SIZE == 1
\* Number of operations (refresh, cache clear, delete, batch delete) the user
\* and the poll timer start after the mount; all of them, the mount's load
\* and one loadMore may be suspended at a network await at the same time.
MaxOps == 1

\* Latest clock reading and latest token expiry of the route model.
MaxTime == 2

NULL == 0
\* The limits of the paginated read (server/index.js:233-236) and of the
\* legacy read (server/index.js:270).
MIN_LIMIT == 1
MAX_LIMIT == 200
DEFAULT_LIMIT == 60
LEGACY_LIMIT == 200
\* Every id a store of the model can hold: MaxId in the session model, two
\* more in the pagination model.
Ids == 1..(MaxId + 2)

----------------------------------------------------------------------------
\* Generic list helpers (JavaScript array operations used by the code).

Min(a, b) == IF a < b THEN a ELSE b

IdSet(list) == {list[i] : i \in DOMAIN list}

\* Array.prototype.filter with the predicate "id \in keep".
RECURSIVE FilterIn(_, _)
FilterIn(list, keep) ==
    IF list = <<>> THEN <<>>
    ELSE (IF Head(list) \in keep THEN <<Head(list)>> ELSE <<>>)
         \o FilterIn(Tail(list), keep)

\* Array.prototype.filter with the predicate "id \notin drop".
RECURSIVE FilterOut(_, _)
FilterOut(list, drop) ==
    IF list = <<>> THEN <<>>
    ELSE (IF Head(list) \in drop THEN <<>> ELSE <<Head(list)>>)
         \o FilterOut(Tail(list), drop)

\* Array.prototype.slice(0, n).
Slice(list, n) == SubSeq(list, 1, Min(n, Len(list)))

\* Array.prototype.findIndex(e => e.id === id): 0-based, -1 when absent.
findIndex(list, id) ==
    IF id \in IdSet(list)
    THEN (CHOOSE i \in DOMAIN list :
             list[i] = id /\ \A j \in 1..(i - 1) : list[j] # id) - 1
    ELSE 0 - 1

\* list.splice(index, 1): the list without the element at 0-based index.
SpliceOut(list, index) ==
    SubSeq(list, 1, index) \o SubSeq(list, index + 2, Len(list))

\* list.splice(index, 0, id): splice clamps the start index to the length.
SpliceIn(list, index, id) ==
    LET at == Min(index, Len(list))
    IN  SubSeq(list, 1, at) \o <<id>> \o SubSeq(list, at + 1, Len(list))

\* The ids of a set as a list in descending order (sort({_id: -1})).
RECURSIVE SortDesc(_)
SortDesc(S) ==
    IF S = {} THEN <<>>
    ELSE LET m == CHOOSE x \in S : \A y \in S : y <= x
         IN  <<m>> \o SortDesc(S \ {m})

NoDuplicates(list) == \A i, j \in DOMAIN list : i # j => list[i] # list[j]

StrictlyDescending(list) ==
    \A i \in 1..(Len(list) - 1) : list[i] > list[i + 1]

\* Strictly descending lists over the ids U of at most n elements.
DescLists(U, n) == {SortDesc(S) : S \in {T \in SUBSET U : Cardinality(T) <= n}}


----------------------------------------------------------------------------
\* Server: the /api/gallery route over the document store db (a set of ids).

\* Variant of CursorQuery: the filter {_id: {$lte: cursor}}.
CursorQuery_Inclusive(db, cursor) ==
    IF cursor = NULL THEN db ELSE {id \in db : id <= cursor}

\* The find() filter of the paginated read: {} or {_id: {$lt: cursor}}.
CursorQuery(db, cursor) ==
    IF cursor = NULL THEN db ELSE {id \in db : id < cursor}

\* Variant of handleGalleryGet: hasMore = docs.length >= limit.
handleGalleryGet_MoreWhenFull(db, cursor, limit) ==
    LET docs     == Slice(SortDesc(CursorQuery(db, cursor)), limit + 1)
        more     == Len(docs) >= limit
        pageDocs == IF more THEN Slice(docs, limit) ELSE docs
    IN  [items      |-> pageDocs,
         hasMore    |-> more,
         nextCursor |-> IF more /\ Len(pageDocs) > 0
                        THEN pageDocs[Len(pageDocs)] ELSE NULL]

\* Variant of handleGalleryGet: nextCursor is the id of the extra document
\* fetched to compute hasMore.
handleGalleryGet_CursorPastPage(db, cursor, limit) ==
    LET docs     == Slice(SortDesc(CursorQuery(db, cursor)), limit + 1)
        more     == Len(docs) > limit
        pageDocs == IF more THEN Slice(docs, limit) ELSE docs
    IN  [items      |-> pageDocs,
         hasMore    |-> more,
         nextCursor |-> IF more /\ Len(pageDocs) > 0
                        THEN docs[Len(docs)] ELSE NULL]

\* GET /api/gallery?limit=..&cursor=..  (paginated mode).
handleGalleryGet(db, cursor, limit) ==
    LET docs     == Slice(SortDesc(CursorQuery(db, cursor)), limit + 1)
        more     == Len(docs) > limit
        pageDocs == IF more THEN Slice(docs, limit) ELSE docs
    IN  [items      |-> pageDocs,
         hasMore    |-> more,
         nextCursor |-> IF more /\ Len(pageDocs) > 0
                        THEN pageDocs[Len(pageDocs)] ELSE NULL]

\* Variant of handleGalleryDelete: deletedCount is not looked at.
handleGalleryDelete_AlwaysOk(db, id) ==
    [db |-> db \ {id}, st |-> "ok"]

\* DELETE /api/gallery {id}: deletedCount = 1 gives 200, otherwise 404.
handleGalleryDelete(db, id) ==
    [db |-> db \ {id}, st |-> IF id \in db THEN "ok" ELSE "nf"]

----------------------------------------------------------------------------
\* Server: the whole /api/gallery route, from the HTTP request to the
\* response.  A string is a sequence of characters.  An ObjectId is written
\* as one glyph (standing for its 24 hex digits): the glyph of id n is
\* IdGlyphs[n].

IdGlyphs == <<"1", "2", "3", "4", "5", "6", "7", "8", "9">>
Decimal  == <<"0", "1", "2", "3", "4", "5", "6", "7", "8", "9">>

\* _id.toString().
IdToString(id) == <<IdGlyphs[id]>>

\* ObjectId.isValid(str) and new ObjectId(str).
ObjectIdIsValid(str) ==
    Len(str) = 1 /\ \E n \in DOMAIN IdGlyphs : IdGlyphs[n] = str[1]
ObjectIdOf(str) == CHOOSE n \in DOMAIN IdGlyphs : IdGlyphs[n] = str[1]

\* String.prototype.trim().
RECURSIVE TrimStart(_)
TrimStart(str) ==
    IF str # <<>> /\ Head(str) = " " THEN TrimStart(Tail(str)) ELSE str
RECURSIVE TrimEnd(_)
TrimEnd(str) ==
    IF str # <<>> /\ str[Len(str)] = " "
    THEN TrimEnd(SubSeq(str, 1, Len(str) - 1)) ELSE str
Trim(str) == TrimEnd(TrimStart(str))

IsDigit(ch) == \E d \in DOMAIN Decimal : Decimal[d] = ch
DigitValue(ch) == (CHOOSE d \in DOMAIN Decimal : Decimal[d] = ch) - 1

\* The longest prefix of str made of decimal digits.
RECURSIVE DigitPrefix(_)
DigitPrefix(str) ==
    IF str # <<>> /\ IsDigit(Head(str))
    THEN <<Head(str)>> \o DigitPrefix(Tail(str)) ELSE <<>>

\* The number a sequence of decimal digits writes.
RECURSIVE DigitsValue(_)
DigitsValue(digits) ==
    IF digits = <<>> THEN 0
    ELSE 10 * DigitsValue(SubSeq(digits, 1, Len(digits) - 1))
         + DigitValue(digits[Len(digits)])

\* parseInt(str, 10): leading white space is skipped, a sign is read, then
\* the longest run of digits; NaN when there is no digit.
ParseInt(str) ==
    LET s1     == TrimStart(str)
        signed == s1 # <<>> /\ Head(s1) \in {"-", "+"}
        s2     == IF signed THEN Tail(s1) ELSE s1
        digits == DigitPrefix(s2)
        value  == DigitsValue(digits)
    IN  [nan |-> digits = <<>>,
         n   |-> IF signed /\ Head(s1) = "-" THEN 0 - value ELSE value]

\* A query or body parameter: searchParams.get / body?.id give null when it
\* is absent.
Absent == [present |-> FALSE, text |-> <<>>]
Param(str) == [present |-> TRUE, text |-> str]

\* Variant of effectiveLimit: Math.max(1, parsedLimit), no upper clamp.
effectiveLimit_NoUpperClamp(limitRaw) ==
    LET parsedLimit == ParseInt(IF limitRaw.present THEN limitRaw.text
                                ELSE <<>>)
    IN  IF ~parsedLimit.nan
        THEN IF parsedLimit.n > MIN_LIMIT THEN parsedLimit.n ELSE MIN_LIMIT
        ELSE DEFAULT_LIMIT

\* The limit of a paginated read: parseInt(String(limitRaw ?? ''), 10)
\* clamped to MIN_LIMIT..MAX_LIMIT, DEFAULT_LIMIT when it is no number.
Max(a, b) == IF a > b THEN a ELSE b
effectiveLimit(limitRaw) ==
    LET parsedLimit == ParseInt(IF limitRaw.present THEN limitRaw.text
                                ELSE <<>>)
    IN  IF ~parsedLimit.nan
        THEN Max(MIN_LIMIT, Min(parsedLimit.n, MAX_LIMIT))
        ELSE DEFAULT_LIMIT

\* The bearer token of the Authorization header: none, or a string of
\* `parts` dot-separated parts whose signature verifies or not (signed) and
\* whose payload expires at exp.
NoToken == [present |-> FALSE, parts |-> 0, signed |-> FALSE, exp |-> 0]

\* Variant of jwtVerify: the payload's exp is not looked at.
jwtVerify_NoExpiry(token, now) ==
    IF token.parts # 3 THEN FALSE
    ELSE IF ~token.signed THEN FALSE
    ELSE TRUE

\* jwtVerify(token, secret) at clock reading now: TRUE when it returns the
\* payload, FALSE when it throws.
jwtVerify(token, now) ==
    IF token.parts # 3 THEN FALSE
    ELSE IF ~token.signed THEN FALSE
    ELSE IF token.exp # 0 /\ token.exp < now THEN FALSE
    ELSE TRUE

\* The try block of the route's auth check.
authorized(token, now) ==
    IF ~token.present THEN FALSE ELSE jwtVerify(token, now)

\* A response: its status, the shape of its body, and the body's fields.
Response(status, kind) ==
    [status |-> status, kind |-> kind, items |-> <<>>, hasMore |-> FALSE,
     nextCursor |-> NULL, limit |-> 0, deletedId |-> NULL]

\* handleGallery(request, env) over the store db at clock reading now: the
\* response and the store it leaves (MONGO_URI is configured).
handleGallery(db, request, now) ==
    IF request.method \notin {"GET", "DELETE"}
    THEN [db |-> db, response |-> Response(405, "error")]
    ELSE IF ~authorized(request.auth, now)
    THEN [db |-> db, response |-> Response(401, "error")]
    ELSE IF request.method = "DELETE"
    THEN IF ~request.id.present \/ request.id.text = <<>>
         THEN [db |-> db, response |-> Response(400, "error")]
         ELSE IF ~ObjectIdIsValid(request.id.text)
         THEN [db |-> db, response |-> Response(500, "error")]
         ELSE LET r == handleGalleryDelete(db, ObjectIdOf(request.id.text))
              IN  [db |-> r.db,
                   response |->
                      IF r.st = "ok"
                      THEN [Response(200, "deleted") EXCEPT
                              !.deletedId = ObjectIdOf(request.id.text)]
                      ELSE Response(404, "error")]
    ELSE LET cursor == IF request.cursor.present
                       THEN Trim(request.cursor.text) ELSE <<>>
             wantsPagination == request.limit.present \/ cursor # <<>>
         IN  IF wantsPagination
             THEN IF cursor # <<>> /\ ~ObjectIdIsValid(cursor)
                  THEN [db |-> db, response |-> Response(400, "error")]
                  ELSE LET limit == effectiveLimit(request.limit)
                           page == handleGalleryGet(
                                       db,
                                       IF cursor # <<>>
                                       THEN ObjectIdOf(cursor) ELSE NULL,
                                       limit)
                       IN  [db |-> db,
                            response |->
                               [Response(200, "page") EXCEPT
                                  !.items = page.items,
                                  !.hasMore = page.hasMore,
                                  !.nextCursor = page.nextCursor,
                                  !.limit = limit]]
             ELSE [db |-> db,
                   response |->
                      [Response(200, "legacy") EXCEPT
                         !.items = Slice(SortDesc(db), LEGACY_LIMIT)]]

----------------------------------------------------------------------------
\* Client: the synchronous pieces of Gallery.vue as functions of the client
\* data c = [entries, pending, selected, cache, images].

NullSnapshot == [entry |-> NULL, index |-> 0 - 1]

syncSelectionWithEntries(c) ==
    [c EXCEPT !.selected = c.selected \cap IdSet(c.entries)]

setGalleryListCache(c, list) ==
    [c EXCEPT !.cache = Slice(list, PAGE_SIZE)]

\* Variant of removeEntryFromLocalCache: the whole image cache is dropped
\* with the entry.
removeEntryFromLocalCache_DropsImages(c, entry) ==
    [setGalleryListCache(c, FilterOut(c.cache, {entry}))
        EXCEPT !.images = {}]

removeEntryFromLocalCache(c, entry) ==
    [setGalleryListCache(c, FilterOut(c.cache, {entry}))
        EXCEPT !.images = @ \ {entry}]

\* queueImageLoads(targetEntries): loadEntryImage has no await before its
\* setImageCache, so every target that shows no image yet has its file
\* reference in the image cache when the call returns. A target that shows
\* an image got it from the cache or from an earlier loadEntryImage, and its
\* key has not been removed since (finalizeDeleteSuccess removes keys of
\* entries that are not in the list, clearImageCache blanks every image):
\* its file reference is in the cache already.
queueImageLoads(c, targetEntries) ==
    [c EXCEPT !.images = @ \cup IdSet(targetEntries)]

\* The value hideEntryOptimistically returns.
hideSnapshot(c, entryId) ==
    IF findIndex(c.entries, entryId) < 0 THEN NullSnapshot
    ELSE [entry |-> entryId, index |-> findIndex(c.entries, entryId)]

\* The client data after hideEntryOptimistically(entryId).
hideEntryOptimistically(c, entryId) ==
    LET index == findIndex(c.entries, entryId)
    IN  IF index < 0 THEN c
        ELSE syncSelectionWithEntries(
                 [c EXCEPT !.entries = SpliceOut(c.entries, index),
                           !.selectedIndex =
                               IF c.selectedIndex = index THEN 0 - 1
                               ELSE IF c.selectedIndex > index
                                    THEN c.selectedIndex - 1
                                    ELSE c.selectedIndex,
                           !.pending = c.pending \cup {entryId}])

\* Variant of restoreHiddenEntry: the pending flag is cleared and the entry
\* is not put back.
restoreHiddenEntry_ClearOnly(c, snapshot) ==
    IF snapshot = NullSnapshot THEN c
    ELSE [c EXCEPT !.pending = c.pending \ {snapshot.entry}]

\* Variant of restoreHiddenEntry: the entry is put back at the end of the
\* list, whatever its snapshot index.
restoreHiddenEntry_AtEnd(c, snapshot) ==
    IF snapshot = NullSnapshot THEN c
    ELSE LET c1 == [c EXCEPT !.pending = c.pending \ {snapshot.entry}]
         IN  IF snapshot.entry \in IdSet(c1.entries) THEN c1
             ELSE syncSelectionWithEntries(
                      [c1 EXCEPT !.entries = Append(c1.entries,
                                                    snapshot.entry)])

\* Variant of restoreHiddenEntry: the entry is put back and its pending flag
\* is left set.
restoreHiddenEntry_KeepsPending(c, snapshot) ==
    IF snapshot = NullSnapshot THEN c
    ELSE IF snapshot.entry \in IdSet(c.entries) THEN c
         ELSE syncSelectionWithEntries(
                  [c EXCEPT !.entries =
                      SpliceIn(c.entries,
                               Min(snapshot.index, Len(c.entries)),
                               snapshot.entry)])

restoreHiddenEntry(c, snapshot) ==
    IF snapshot = NullSnapshot THEN c
    ELSE LET c1 == [c EXCEPT !.pending = c.pending \ {snapshot.entry}]
             insertIndex == Min(snapshot.index, Len(c1.entries))
         IN  IF snapshot.entry \in IdSet(c1.entries) THEN c1
             ELSE syncSelectionWithEntries(
                      [c1 EXCEPT !.entries =
                                     SpliceIn(c1.entries, insertIndex,
                                              snapshot.entry),
                                 !.selectedIndex =
                                     IF c1.selectedIndex >= insertIndex
                                     THEN c1.selectedIndex + 1
                                     ELSE c1.selectedIndex])

finalizeDeleteSuccess(c, entry) ==
    syncSelectionWithEntries(
        removeEntryFromLocalCache(
            [c EXCEPT !.pending = c.pending \ {entry}], entry))

\* Variant of mergeTopPage: the server list is merged without the filter on
\* pendingDeleteIds.
mergeTopPage_NoPendingFilter(c, serverItems, keepExistingTail) ==
    LET topEntries == serverItems
        tail == FilterOut(c.entries, IdSet(topEntries))
        merged == IF keepExistingTail THEN topEntries \o tail ELSE topEntries
    IN  syncSelectionWithEntries(
            queueImageLoads(
                setGalleryListCache([c EXCEPT !.entries = merged],
                                    serverItems),
                merged))

\* Variant of mergeTopPage: keepExistingTail is not looked at, the list is
\* replaced by the page.
mergeTopPage_DropTail(c, serverItems, keepExistingTail) ==
    LET visibleServerList == FilterOut(serverItems, c.pending)
    IN  syncSelectionWithEntries(
            queueImageLoads(
                setGalleryListCache([c EXCEPT !.entries = visibleServerList],
                                    visibleServerList),
                visibleServerList))

mergeTopPage(c, serverItems, keepExistingTail) ==
    LET visibleServerList == FilterOut(serverItems, c.pending)
        topEntries == visibleServerList
        tail == FilterOut(c.entries, IdSet(topEntries))
        merged == IF keepExistingTail THEN topEntries \o tail ELSE topEntries
    IN  syncSelectionWithEntries(
            queueImageLoads(
                setGalleryListCache([c EXCEPT !.entries = merged],
                                    visibleServerList),
                merged))

\* The cache paint at the head of load(): the list shown before the fetch.
loadPaint(c, forceListRefresh) ==
    IF ~forceListRefresh /\ Len(c.cache) > 0
    THEN queueImageLoads(
             [c EXCEPT !.entries =
                 FilterOut(Slice(c.cache, PAGE_SIZE), c.pending)],
             FilterOut(Slice(c.cache, PAGE_SIZE), c.pending))
    ELSE c

\* The value load() leaves in the loading flag before it awaits the fetch.
loadFlag(c, forceListRefresh, wasLoading) ==
    IF ~forceListRefresh
    THEN Len(c.cache) = 0
    ELSE IF Len(c.entries) = 0 THEN TRUE ELSE wasLoading

\* Variant of appendedEntries: the page is appended without the check
\* against the ids already present.
appendedEntries_NoCheck(visibleItems, existingIds) == visibleItems

\* The entries loadMore appends for a fetched page.
RECURSIVE appendedEntries(_, _)
appendedEntries(visibleItems, existingIds) ==
    IF visibleItems = <<>> THEN <<>>
    ELSE IF Head(visibleItems) \in existingIds
         THEN appendedEntries(Tail(visibleItems), existingIds)
         ELSE <<Head(visibleItems)>>
              \o appendedEntries(Tail(visibleItems),
                                 existingIds \cup {Head(visibleItems)})

loadMoreMerge(c, items) ==
    LET visibleItems == FilterOut(items, c.pending)
        appended == appendedEntries(visibleItems, IdSet(c.entries))
    IN  IF Len(appended) > 0
        THEN syncSelectionWithEntries(
                 queueImageLoads(
                     [c EXCEPT !.entries = c.entries \o appended],
                     appended))
        ELSE c

\* performBatchDelete's targets: every selected visible entry is hidden in
\* list order, each snapshot taken from the list as already shortened.
RECURSIVE batchTargets(_, _)
batchTargets(c, targetEntries) ==
    IF targetEntries = <<>> THEN <<>>
    ELSE <<hideSnapshot(c, Head(targetEntries))>>
         \o batchTargets(hideEntryOptimistically(c, Head(targetEntries)),
                         Tail(targetEntries))

\* Variant of batchHide: only the first target is hidden up front.
batchHide_FirstOnly(c, targetEntries) ==
    IF targetEntries = <<>> THEN c
    ELSE hideEntryOptimistically(c, Head(targetEntries))

RECURSIVE batchHide(_, _)
batchHide(c, targetEntries) ==
    IF targetEntries = <<>> THEN c
    ELSE batchHide(hideEntryOptimistically(c, Head(targetEntries)),
                   Tail(targetEntries))

\* Variant of batchIssue: the loop fires the requests of all its targets at
\* once (Promise.all) instead of awaiting them one by one.
batchIssue_AllAtOnce(targetEntries, i) ==
    IF i = 1 THEN IdSet(targetEntries) ELSE {}

\* The delete requests the batch loop has outstanding once it reaches
\* iteration i (1-based): the loop awaits one request per iteration.
batchIssue(targetEntries, i) ==
    IF i <= Len(targetEntries) THEN {targetEntries[i]} ELSE {}

----------------------------------------------------------------------------
\* State.

VARIABLES
    store,              \* server: ids of the documents of the collection
    issued,             \* server: highest id ever assigned
    mounted,            \* onMounted has run
    entries,            \* entries.value, as the list of ids
    pendingDeleteIds,   \* the Set pendingDeleteIds
    selectedEntryIds,   \* selectedEntryIds.value (ids are unique: a set)
    selectedIndex,      \* selectedIndex.value: 0-based index of the entry
                        \* shown in the detail dialog, -1 when it is closed
    batchMode,          \* batchMode.value
    listCache,          \* localStorage gallery_list_cache (<<>>: none)
    imageCache,         \* localStorage gallery_image_cache: the file
                        \* references it holds a URL for (an entry's file
                        \* reference is written as the entry's id)
    paginationCursor,   \* paginationCursor.value
    hasMore,            \* hasMore.value
    loading,            \* loading.value
    loadingMore,        \* loadingMore.value
    pendingDelete,      \* pendingDelete.value (NULL: none)
    showDeleteModal,    \* showDeleteModal.value
    toast,              \* the message the last step gave to showToastMsg
                        \* (NoToast when it showed none)
    tasks,              \* async functions suspended at an await, in the
                        \* order they were called
    ops,                \* number of operations started after the mount
    finalized,          \* history: ids finalizeDeleteSuccess ran for
    obs,                \* history: a delete operation that ran with no
                        \* other operation in flight or in between
    last,               \* history: what the last step merged or settled
    call,               \* route models: the last request to /api/gallery,
                        \* the store it met and the response it got; in
                        \* the models of /api/fileurl and of the client's
                        \* fetch boundary, the request in progress
                        \* (NoCall: none yet)
    walk                \* route model: a reader that follows nextCursor
                        \* from the first page to the end (NoWalk: it has
                        \* not started)

serverVars == <<store, issued>>
listVars   == <<entries, pendingDeleteIds, selectedEntryIds, selectedIndex,
                listCache, imageCache>>
pageVars   == <<paginationCursor, hasMore>>
flagVars   == <<loading, loadingMore>>
modalVars  == <<pendingDelete, showDeleteModal>>
vars == <<store, issued, mounted, entries, pendingDeleteIds,
          selectedEntryIds, selectedIndex, batchMode, listCache, imageCache,
          paginationCursor, hasMore,
          loading, loadingMore, pendingDelete, showDeleteModal, toast, tasks,
          ops, finalized, obs, last, call, walk>>
apiVars == <<call, walk>>

\* The page takes clicks: it is mounted and not covered by the delete modal
\* (.modal-backdrop is a fixed full-screen layer).
clickable == mounted /\ ~showDeleteModal

NoPage == [items |-> <<>>, hasMore |-> FALSE, nextCursor |-> NULL]
NoToast == [msg |-> "", ok |-> 0, fail |-> 0]
\* obs.tag "single"/"batch": a performDelete/performBatchDelete called with
\* no task suspended; before: the list at the call; ids: its targets; succ,
\* failed: the targets settled so far by outcome; nf: those the server
\* answered 404 for; done: the operation has ended.
NoObs  == [tag |-> "none", before |-> <<>>, ids |-> <<>>,
           succ |-> {}, failed |-> {}, nf |-> {}, done |-> FALSE]
\* last.op: "paint" (cache paint of load), "top" (mergeTopPage), "more"
\* (loadMore's merge), "error" (the catch branch of load or loadMore:
\* error.value is set), "restore" (a delete's catch branch), "finalize" (a
\* delete's success branch), "hide" (performBatchDelete has hidden its
\* targets and awaits its first request); by: "single" or "batch", the
\* delete it belongs to, "load" or "more" for "error"; pre: the list before
\* the step; id, index: the delete's entry and snapshot index; reply: how its request settled ("ok", "nf", "err");
\* cursor: the cursor the merged page was requested with; prev: the
\* pagination cursor before the step; dropped: pending ids the merged
\* source held; dups: ids of the page that were already in the list; for
\* "top" also forced, had: the load's forceListRefresh and hadEntries; page:
\* the page it merged; painted: the cached list the load painted from
\* before its fetch (empty: it did not paint); prevMore: hasMore before the
\* step; for "error" also
\* pending, cache, inFlight: the pending set, the list cache and the number
\* of suspended calls before the step.
NoLast == [op |-> "none", by |-> "", pre |-> <<>>, id |-> NULL,
           index |-> 0 - 1, reply |-> "", cursor |-> NULL, prev |-> NULL,
           dropped |-> {}, dups |-> {}, forced |-> FALSE, had |-> FALSE,
           page |-> NoPage, prevMore |-> FALSE, pending |-> {},
           cache |-> <<>>, inFlight |-> 0, painted |-> <<>>]

\* A call to /api/gallery is [request, now, before, response]: the request,
\* the clock reading, the store before it and the response. Before the
\* first request the method is "NONE".
NoCall == [request |-> [method |-> "NONE"]]
\* A walk is [started, limit, cursor, returned, stable, changed,
\* cursorDeleted, done]: whether the reader has fetched its first page; the
\* reader's page size; the nextCursor of its last page; the ids of its
\* pages in the order received; the ids that were in the store when the
\* first page was read and have not been deleted since; whether an entry
\* was deleted since; whether the entry of the cursor then held was;
\* whether its last page said hasMore = false.
NoWalk == [started |-> FALSE]

\* What the catch branch of load ("load") or loadMore ("more") leaves in
\* last: error.value is set, and the state it found.
FetchError(by) ==
    [NoLast EXCEPT !.op = "error", !.by = by, !.pre = entries,
                   !.prev = paginationCursor, !.prevMore = hasMore,
                   !.pending = pendingDeleteIds, !.cache = listCache,
                   !.inFlight = Len(tasks)]

Cur == [entries  |-> entries,
        pending  |-> pendingDeleteIds,
        selected |-> selectedEntryIds,
        cache    |-> listCache,
        images   |-> imageCache,
        selectedIndex |-> selectedIndex]

Commit(c) ==
    /\ entries' = c.entries
    /\ pendingDeleteIds' = c.pending
    /\ selectedEntryIds' = c.selected
    /\ listCache' = c.cache
    /\ imageCache' = c.images
    /\ selectedIndex' = c.selectedIndex

\* Positions of the suspended tasks: the mount's load, MaxOps operations and
\* the one loadMore its re-entrancy guard admits.
TaskIdx == 1..(MaxOps + 2)
RemoveAt(seq, t) == SubSeq(seq, 1, t - 1) \o SubSeq(seq, t + 1, Len(seq))
IsTask(t, kinds) == t \in DOMAIN tasks /\ tasks[t].kind \in kinds

\* An operation is started within the budget. The steps that only prepare
\* an operation (opening the delete dialog, entering batch mode, changing
\* the selection) are taken while the budget still admits one (ops < MaxOps
\* in their guards): once it is spent nothing could follow them.
startOp ==
    /\ ops < MaxOps
    /\ ops' = ops + 1

\* How an awaited request settles for the client: with the server's reply,
\* or with a failure (the request or its reply is lost in transport, or the
\* server answers 401/5xx).
replied(st) == st # "req"

\* The state after construction: n ids were assigned before the session, any
\* of them may have been deleted since, the list cache holds the top
\* page of an earlier session or nothing, and the image cache holds the
\* images that session showed for it.
InitWith(n) ==
    /\ issued = n
    /\ store \in SUBSET (1..n)
    /\ mounted = FALSE
    /\ entries = <<>>
    /\ pendingDeleteIds = {}
    /\ selectedEntryIds = {}
    /\ selectedIndex = 0 - 1
    /\ batchMode = FALSE
    /\ listCache \in DescLists(1..n, PAGE_SIZE)
    /\ imageCache = IdSet(listCache)
    /\ paginationCursor = NULL
    /\ hasMore = TRUE
    /\ loading = FALSE
    /\ loadingMore = FALSE
    /\ pendingDelete = NULL
    /\ showDeleteModal = FALSE
    /\ toast = NoToast
    /\ tasks = <<>>
    /\ ops = 0
    /\ finalized = {}
    /\ obs = NoObs
    /\ last = NoLast
    /\ call = NoCall
    /\ walk = NoWalk

Init == InitWith(MaxId - 1)

----------------------------------------------------------------------------
\* Server steps.

\* A new entry is ingested: it gets the next id.
Ingest ==
    /\ UNCHANGED apiVars
    /\ issued < MaxId
    /\ issued' = issued + 1
    /\ store' = store \cup {issued + 1}
    /\ toast' = NoToast
    /\ obs' = IF obs.done THEN NoObs ELSE obs
    /\ last' = NoLast
    /\ UNCHANGED <<mounted, listVars, batchMode, pageVars, flagVars,
                   modalVars, tasks, ops, finalized>>

\* The server answers the page request of task t.
ServeGet(t) ==
    /\ UNCHANGED apiVars
    /\ IsTask(t, {"load", "more"})
    /\ tasks[t].st = "req"
    /\ tasks' = [tasks EXCEPT ![t].st = "ok",
                              ![t].page = handleGalleryGet(
                                  store, tasks[t].cursor, PAGE_SIZE)]
    /\ toast' = NoToast
    /\ last' = NoLast
    /\ UNCHANGED <<serverVars, mounted, listVars, batchMode, pageVars,
                   flagVars, modalVars, ops, finalized, obs>>

\* The server answers the delete request for id of task t.
ServeDelete(t, id) ==
    /\ UNCHANGED apiVars
    /\ IsTask(t, {"del", "batch"})
    /\ [id |-> id, st |-> "req"] \in tasks[t].reqs
    /\ LET r == handleGalleryDelete(store, id)
       IN  /\ store' = r.db
           /\ tasks' = [tasks EXCEPT ![t].reqs =
                           (@ \ {[id |-> id, st |-> "req"]})
                           \cup {[id |-> id, st |-> r.st]}]
    /\ toast' = NoToast
    /\ last' = NoLast
    /\ UNCHANGED <<issued, mounted, listVars, batchMode, pageVars, flagVars,
                   modalVars, ops, finalized, obs>>

----------------------------------------------------------------------------
\* Synchronization engine: load and loadMore.

\* load(forceImageRefresh, forceListRefresh) up to its await of the fetch,
\* called with the client data c.
load(c, forceImageRefresh, forceListRefresh) ==
    /\ UNCHANGED apiVars
    /\ Commit(loadPaint(c, forceListRefresh))
    /\ loading' = loadFlag(Cur, forceListRefresh, loading)
    /\ tasks' = Append(tasks,
                    [kind |-> "load",
                     forceListRefresh |-> forceListRefresh,
                     hadEntries |-> Len(entries) > 0,
                     painted |-> IF ~forceListRefresh
                                 THEN Slice(listCache, PAGE_SIZE)
                                 ELSE <<>>,
                     cursor |-> NULL,
                     st |-> "req",
                     page |-> NoPage])
    /\ obs' = NoObs
    /\ last' = IF ~forceListRefresh /\ Len(listCache) > 0
               THEN [NoLast EXCEPT
                       !.op = "paint",
                       !.pre = entries,
                       !.dropped = IdSet(listCache) \cap pendingDeleteIds]
               ELSE NoLast
    /\ UNCHANGED <<serverVars, batchMode, pageVars, loadingMore, modalVars,
                   finalized>>

onMounted ==
    /\ ~mounted
    /\ mounted' = TRUE
    /\ load(Cur, FALSE, FALSE)
    /\ toast' = NoToast
    /\ UNCHANGED ops

\* The "refresh all" button and the 60 s poll timer: load(false, true).
forceRefreshAll ==
    /\ mounted
    /\ startOp
    /\ load(Cur, FALSE, TRUE)
    /\ toast' = NoToast
    /\ UNCHANGED mounted

\* The "clear cache" button, confirmed: the image cache is removed from
\* localStorage, every image is blanked, then load(true, false).
clearImageCache ==
    /\ clickable
    /\ startOp
    /\ load([Cur EXCEPT !.images = {}], TRUE, FALSE)
    /\ toast' = [msg |-> "cacheCleared", ok |-> 0, fail |-> 0]
    /\ UNCHANGED mounted

\* load() from the fetch's outcome to its end; failed: the fetch threw.
\* Variant of loadResume: a failed fetch is merged as an empty page.
loadResume_FailureEmptiesList(t, failed) ==
    /\ UNCHANGED apiVars
    /\ IsTask(t, {"load"})
    /\ failed \/ replied(tasks[t].st)
    /\ LET task == tasks[t]
           page == IF failed THEN NoPage ELSE task.page
       IN  /\ Commit(mergeTopPage(Cur, page.items, task.forceListRefresh))
           /\ IF ~task.forceListRefresh \/ ~task.hadEntries
              THEN /\ paginationCursor' = page.nextCursor
                   /\ hasMore' = page.hasMore
              ELSE IF paginationCursor = NULL
                   THEN /\ paginationCursor' = page.nextCursor
                        /\ UNCHANGED hasMore
                   ELSE UNCHANGED pageVars
    /\ loading' = FALSE
    /\ tasks' = RemoveAt(tasks, t)
    /\ obs' = NoObs
    /\ last' = IF failed THEN FetchError("load")
               ELSE [NoLast EXCEPT
                       !.op = "top",
                       !.pre = entries,
                       !.prev = paginationCursor,
                       !.forced = tasks[t].forceListRefresh,
                       !.had = tasks[t].hadEntries,
                       !.painted = tasks[t].painted,
                       !.page = tasks[t].page,
                       !.prevMore = hasMore,
                       !.dropped = IdSet(tasks[t].page.items)
                                   \cap pendingDeleteIds]
    /\ toast' = NoToast
    /\ UNCHANGED <<serverVars, mounted, batchMode, loadingMore, modalVars,
                   ops, finalized>>

loadResume(t, failed) ==
    /\ UNCHANGED apiVars
    /\ IsTask(t, {"load"})
    /\ failed \/ replied(tasks[t].st)
    /\ LET task == tasks[t]
           page == task.page
       IN  IF ~failed
           THEN /\ Commit(mergeTopPage(Cur, page.items, task.forceListRefresh))
                /\ IF ~task.forceListRefresh \/ ~task.hadEntries
                   THEN /\ paginationCursor' = page.nextCursor
                        /\ hasMore' = page.hasMore
                   ELSE IF paginationCursor = NULL
                        THEN /\ paginationCursor' = page.nextCursor
                             /\ UNCHANGED hasMore
                        ELSE UNCHANGED pageVars
           ELSE UNCHANGED <<listVars, pageVars>>
    /\ loading' = FALSE
    /\ tasks' = RemoveAt(tasks, t)
    /\ obs' = NoObs
    /\ last' = IF failed THEN FetchError("load")
               ELSE [NoLast EXCEPT
                       !.op = "top",
                       !.pre = entries,
                       !.prev = paginationCursor,
                       !.forced = tasks[t].forceListRefresh,
                       !.had = tasks[t].hadEntries,
                       !.painted = tasks[t].painted,
                       !.page = tasks[t].page,
                       !.prevMore = hasMore,
                       !.dropped = IdSet(tasks[t].page.items)
                                   \cap pendingDeleteIds]
    /\ toast' = NoToast
    /\ UNCHANGED <<serverVars, mounted, batchMode, loadingMore, modalVars,
                   ops, finalized>>

\* Variant of loadMore: the guard does not look at loadingMore.
loadMore_NoReentryGuard ==
    /\ UNCHANGED apiVars
    /\ mounted
    /\ IF loading \/ ~hasMore \/ paginationCursor = NULL
       THEN UNCHANGED vars
       ELSE /\ loadingMore' = TRUE
            /\ tasks' = Append(tasks,
                            [kind |-> "more",
                             cursor |-> paginationCursor,
                             st |-> "req",
                             page |-> NoPage])
            /\ obs' = NoObs
            /\ last' = NoLast
            /\ toast' = NoToast
            /\ UNCHANGED <<serverVars, mounted, listVars, batchMode,
                           pageVars, loading, modalVars, ops, finalized>>

\* loadMore() up to its await, called by the viewport observer.
loadMore ==
    /\ UNCHANGED apiVars
    /\ mounted
    /\ IF loading \/ loadingMore \/ ~hasMore \/ paginationCursor = NULL
       THEN UNCHANGED vars
       ELSE /\ loadingMore' = TRUE
            /\ tasks' = Append(tasks,
                            [kind |-> "more",
                             cursor |-> paginationCursor,
                             st |-> "req",
                             page |-> NoPage])
            /\ obs' = NoObs
            /\ last' = NoLast
            /\ toast' = NoToast
            /\ UNCHANGED <<serverVars, mounted, listVars, batchMode,
                           pageVars, loading, modalVars, ops, finalized>>

\* loadMore() from the fetch's outcome to its end; failed: the fetch threw.
\* Variant of loadMoreResume: loadingMore is cleared after the assignments of
\* the try block, not in a finally.
loadMoreResume_FlagClearedInTry(t, failed) ==
    /\ UNCHANGED apiVars
    /\ IsTask(t, {"more"})
    /\ failed \/ replied(tasks[t].st)
    /\ IF ~failed
       THEN /\ Commit(loadMoreMerge(Cur, tasks[t].page.items))
            /\ paginationCursor' = tasks[t].page.nextCursor
            /\ hasMore' = tasks[t].page.hasMore
            /\ loadingMore' = FALSE
       ELSE UNCHANGED <<listVars, pageVars, loadingMore>>
    /\ tasks' = RemoveAt(tasks, t)
    /\ obs' = NoObs
    /\ last' = IF failed THEN FetchError("more")
               ELSE [NoLast EXCEPT !.op = "more", !.pre = entries,
                                   !.cursor = tasks[t].cursor,
                                   !.prev = paginationCursor]
    /\ toast' = NoToast
    /\ UNCHANGED <<serverVars, mounted, batchMode, loading, modalVars,
                   ops, finalized>>

loadMoreResume(t, failed) ==
    /\ UNCHANGED apiVars
    /\ IsTask(t, {"more"})
    /\ failed \/ replied(tasks[t].st)
    /\ IF ~failed
       THEN /\ Commit(loadMoreMerge(Cur, tasks[t].page.items))
            /\ paginationCursor' = tasks[t].page.nextCursor
            /\ hasMore' = tasks[t].page.hasMore
       ELSE UNCHANGED <<listVars, pageVars>>
    /\ loadingMore' = FALSE
    /\ tasks' = RemoveAt(tasks, t)
    /\ obs' = NoObs
    /\ last' = IF failed THEN FetchError("more")
               ELSE [NoLast EXCEPT
                       !.op = "more",
                       !.pre = entries,
                       !.cursor = tasks[t].cursor,
                       !.prev = paginationCursor,
                       !.dropped = IdSet(tasks[t].page.items)
                                   \cap pendingDeleteIds,
                       !.dups = IdSet(tasks[t].page.items)
                                \cap IdSet(entries)]
    /\ toast' = NoToast
    /\ UNCHANGED <<serverVars, mounted, batchMode, loading, modalVars,
                   ops, finalized>>

----------------------------------------------------------------------------
\* Mutation engine: single delete.

openDeleteModal(entry) ==
    /\ UNCHANGED apiVars
    /\ clickable /\ ~loading
    /\ ops < MaxOps
    /\ entry \in IdSet(entries)
    /\ pendingDelete' = entry
    /\ showDeleteModal' = TRUE
    /\ obs' = NoObs
    /\ last' = NoLast
    /\ toast' = NoToast
    /\ UNCHANGED <<serverVars, mounted, listVars, batchMode, pageVars,
                   flagVars, tasks, ops, finalized>>

cancelDelete ==
    /\ UNCHANGED apiVars
    /\ showDeleteModal
    /\ pendingDelete' = NULL
    /\ showDeleteModal' = FALSE
    /\ obs' = NoObs
    /\ last' = NoLast
    /\ toast' = NoToast
    /\ UNCHANGED <<serverVars, mounted, listVars, batchMode, pageVars,
                   flagVars, tasks, ops, finalized>>

\* performDelete() up to its await of the delete request.
performDelete ==
    /\ UNCHANGED apiVars
    /\ showDeleteModal
    /\ IF pendingDelete = NULL
       THEN UNCHANGED vars
       ELSE /\ startOp
            /\ showDeleteModal' = FALSE
            /\ Commit(hideEntryOptimistically(Cur, pendingDelete))
            /\ tasks' = Append(tasks,
                            [kind |-> "del",
                             entry |-> pendingDelete,
                             snapshot |-> hideSnapshot(Cur, pendingDelete),
                             reqs |-> {[id |-> pendingDelete, st |-> "req"]}])
            /\ obs' = IF tasks = <<>>
                      THEN [NoObs EXCEPT !.tag = "single",
                                         !.before = entries,
                                         !.ids = <<pendingDelete>>]
                      ELSE NoObs
            /\ last' = NoLast
            /\ toast' = NoToast
            /\ UNCHANGED <<serverVars, mounted, batchMode, pageVars,
                           flagVars, pendingDelete, finalized>>

\* performDelete() from the request's outcome to its end; failed: the
\* request threw without a reply.
performDeleteResume(t, failed) ==
    /\ UNCHANGED apiVars
    /\ IsTask(t, {"del"})
    /\ \E r \in tasks[t].reqs :
          /\ failed \/ replied(r.st)
          /\ LET ok == ~failed /\ r.st = "ok"
             IN  /\ IF ok
                    THEN /\ Commit(finalizeDeleteSuccess(Cur, tasks[t].entry))
                         /\ toast' = [msg |-> "deleted", ok |-> 0, fail |-> 0]
                         /\ finalized' = finalized \cup {tasks[t].entry}
                    ELSE /\ Commit(restoreHiddenEntry(Cur, tasks[t].snapshot))
                         /\ toast' = [msg |-> "deleteFailed",
                                      ok |-> 0, fail |-> 0]
                         /\ UNCHANGED finalized
                 /\ obs' = IF obs.tag = "single" /\ ~obs.done
                           THEN [obs EXCEPT
                                   !.done = TRUE,
                                   !.succ = IF ok THEN {r.id} ELSE {},
                                   !.failed = IF ok THEN {} ELSE {r.id},
                                   !.nf = IF ~failed /\ r.st = "nf"
                                          THEN {r.id} ELSE {}]
                           ELSE NoObs
                 /\ last' = [NoLast EXCEPT
                               !.op = IF ok THEN "finalize" ELSE "restore",
                               !.by = "single",
                               !.pre = entries,
                               !.id = tasks[t].entry,
                               !.index = tasks[t].snapshot.index,
                               !.reply = IF failed THEN "err" ELSE r.st]
    /\ pendingDelete' = NULL
    /\ tasks' = RemoveAt(tasks, t)
    /\ UNCHANGED <<serverVars, mounted, batchMode, pageVars, flagVars,
                   showDeleteModal, ops>>

----------------------------------------------------------------------------
\* Mutation engine: selection and batch delete.

toggleBatchMode ==
    /\ UNCHANGED apiVars
    /\ clickable
    /\ batchMode \/ ops < MaxOps
    /\ batchMode' = ~batchMode
    /\ selectedEntryIds' = IF batchMode THEN {} ELSE selectedEntryIds
    /\ selectedIndex' = 0 - 1
    /\ obs' = NoObs
    /\ last' = NoLast
    /\ toast' = NoToast
    /\ UNCHANGED <<serverVars, mounted, entries, pendingDeleteIds, listCache,
                   imageCache,
                   pageVars, flagVars, modalVars, tasks, ops, finalized>>

toggleEntrySelection(entryId) ==
    /\ UNCHANGED apiVars
    /\ clickable /\ batchMode /\ ~loading
    /\ ops < MaxOps
    /\ entryId \in IdSet(entries)
    /\ selectedEntryIds' = IF entryId \in selectedEntryIds
                           THEN selectedEntryIds \ {entryId}
                           ELSE selectedEntryIds \cup {entryId}
    /\ obs' = NoObs
    /\ last' = NoLast
    /\ toast' = NoToast
    /\ UNCHANGED <<serverVars, mounted, entries, pendingDeleteIds, listCache,
                   imageCache, selectedIndex,
                   batchMode, pageVars, flagVars, modalVars, tasks, ops,
                   finalized>>

allEntriesSelected ==
    Len(entries) > 0 /\ Cardinality(selectedEntryIds) = Len(entries)

toggleSelectAllEntries ==
    /\ UNCHANGED apiVars
    /\ clickable /\ batchMode
    /\ ops < MaxOps
    /\ selectedEntryIds' = IF allEntriesSelected THEN {} ELSE IdSet(entries)
    /\ obs' = NoObs
    /\ last' = NoLast
    /\ toast' = NoToast
    /\ UNCHANGED <<serverVars, mounted, entries, pendingDeleteIds, listCache,
                   imageCache, selectedIndex,
                   batchMode, pageVars, flagVars, modalVars, tasks, ops,
                   finalized>>

clearBatchSelection ==
    /\ UNCHANGED apiVars
    /\ clickable /\ batchMode
    /\ selectedEntryIds' = {}
    /\ obs' = NoObs
    /\ last' = NoLast
    /\ toast' = NoToast
    /\ UNCHANGED <<serverVars, mounted, entries, pendingDeleteIds, listCache,
                   imageCache, selectedIndex,
                   batchMode, pageVars, flagVars, modalVars, tasks, ops,
                   finalized>>

\* performBatchDelete(), confirmed, up to its first await.
performBatchDelete ==
    /\ UNCHANGED apiVars
    /\ clickable /\ batchMode /\ selectedEntryIds # {}
    /\ LET targetEntries == FilterIn(entries, selectedEntryIds)
       IN  IF targetEntries = <<>>
           THEN /\ toast' = [msg |-> "selectFirst", ok |-> 0, fail |-> 0]
                /\ obs' = NoObs
                /\ last' = NoLast
                /\ UNCHANGED <<serverVars, mounted, listVars, batchMode,
                               pageVars, flagVars, modalVars, tasks, ops,
                               finalized>>
           ELSE /\ startOp
                /\ Commit([batchHide(Cur, targetEntries)
                              EXCEPT !.selected = {}])
                /\ batchMode' = FALSE
                /\ tasks' = Append(tasks,
                                [kind |-> "batch",
                                 ids |-> targetEntries,
                                 snaps |-> batchTargets(Cur, targetEntries),
                                 i |-> 1,
                                 reqs |-> {[id |-> id, st |-> "req"] :
                                             id \in batchIssue(targetEntries, 1)},
                                 successCount |-> 0,
                                 failCount |-> 0])
                /\ obs' = IF tasks = <<>>
                          THEN [NoObs EXCEPT !.tag = "batch",
                                             !.before = entries,
                                             !.ids = targetEntries]
                          ELSE NoObs
                /\ last' = [NoLast EXCEPT !.op = "hide", !.by = "batch",
                                          !.pre = entries]
                /\ toast' = NoToast
                /\ UNCHANGED <<serverVars, mounted, pageVars, flagVars,
                               modalVars, finalized>>

\* One turn of the batch loop: the awaited request of iteration i settles
\* (failed: it threw without a reply), its outcome is applied, and the loop
\* goes on to iteration i + 1 or ends with the report.
batchResume(t, failed) ==
    /\ UNCHANGED apiVars
    /\ IsTask(t, {"batch"})
    /\ LET task == tasks[t]
           id   == task.ids[task.i]
           final == task.i = Len(task.ids)
       IN  \E r \in task.reqs :
             /\ r.id = id
             /\ failed \/ replied(r.st)
             /\ LET ok    == ~failed /\ r.st = "ok"
                    okN   == task.successCount + (IF ok THEN 1 ELSE 0)
                    failN == task.failCount + (IF ok THEN 0 ELSE 1)
                IN  /\ IF ok
                       THEN /\ Commit(finalizeDeleteSuccess(Cur, id))
                            /\ finalized' = finalized \cup {id}
                       ELSE /\ Commit(restoreHiddenEntry(Cur,
                                                         task.snaps[task.i]))
                            /\ UNCHANGED finalized
                    /\ tasks' =
                          IF final THEN RemoveAt(tasks, t)
                          ELSE [tasks EXCEPT ![t] =
                                  [task EXCEPT
                                     !.i = task.i + 1,
                                     !.reqs = (task.reqs \ {r}) \cup
                                        {[id |-> n, st |-> "req"] :
                                           n \in batchIssue(task.ids,
                                                            task.i + 1)},
                                     !.successCount = okN,
                                     !.failCount = failN]]
                    /\ toast' = IF final
                                THEN [msg |-> "batch",
                                      ok |-> okN, fail |-> failN]
                                ELSE NoToast
                    /\ obs' = IF obs.tag = "batch" /\ ~obs.done
                              THEN [obs EXCEPT
                                      !.done = final,
                                      !.succ = IF ok THEN @ \cup {id} ELSE @,
                                      !.failed = IF ok THEN @
                                                 ELSE @ \cup {id},
                                      !.nf = IF ~failed /\ r.st = "nf"
                                             THEN @ \cup {id} ELSE @]
                              ELSE NoObs
                    /\ last' = [NoLast EXCEPT
                                  !.op = IF ok THEN "finalize" ELSE "restore",
                                  !.by = "batch",
                                  !.pre = entries,
                                  !.id = id,
                                  !.index = task.snaps[task.i].index,
                                  !.reply = IF failed THEN "err" ELSE r.st]
    /\ UNCHANGED <<serverVars, mounted, batchMode, pageVars, flagVars,
                   modalVars, ops>>

----------------------------------------------------------------------------
Next ==
    \/ Ingest
    \/ \E t \in TaskIdx : ServeGet(t)
    \/ \E t \in TaskIdx, id \in Ids : ServeDelete(t, id)
    \/ onMounted
    \/ forceRefreshAll
    \/ clearImageCache
    \/ \E t \in TaskIdx, failed \in BOOLEAN : loadResume(t, failed)
    \/ loadMore
    \/ \E t \in TaskIdx, failed \in BOOLEAN : loadMoreResume(t, failed)
    \/ \E e \in Ids : openDeleteModal(e)
    \/ cancelDelete
    \/ performDelete
    \/ \E t \in TaskIdx, failed \in BOOLEAN : performDeleteResume(t, failed)
    \/ toggleBatchMode
    \/ \E e \in Ids : toggleEntrySelection(e)
    \/ toggleSelectAllEntries
    \/ clearBatchSelection
    \/ performBatchDelete
    \/ \E t \in TaskIdx, failed \in BOOLEAN : batchResume(t, failed)

Spec == Init /\ [][Next]_vars

----------------------------------------------------------------------------
\* Pagination on a longer store: the session's reads only, over a store of
\* up to MaxId + 2 entries, so that a cursor walks several pages.

PagingInit == InitWith(MaxId + 2)

PagingNext ==
    \/ \E t \in TaskIdx : ServeGet(t)
    \/ onMounted
    \/ forceRefreshAll
    \/ \E t \in TaskIdx, failed \in BOOLEAN : loadResume(t, failed)
    \/ loadMore
    \/ \E t \in TaskIdx, failed \in BOOLEAN : loadMoreResume(t, failed)

SpecPaging == PagingInit /\ [][PagingNext]_vars

----------------------------------------------------------------------------
\* The /api/gallery route on its own: requests of any client, well formed
\* or not, against a store of up to MaxId + 2 entries.

\* String(n) for n >= 0.
RECURSIVE ToDecimal(_)
ToDecimal(n) ==
    IF n < 10 THEN <<Decimal[n + 1]>>
    ELSE ToDecimal(n \div 10) \o <<Decimal[(n % 10) + 1]>>

Times == 1..MaxTime
Tokens ==
    {NoToken} \cup
    [present : {TRUE}, parts : {2, 3}, signed : BOOLEAN,
     exp : {0} \cup Times]
ValidToken == [present |-> TRUE, parts |-> 3, signed |-> TRUE,
               exp |-> MaxTime]

\* Values of the limit parameter: absent, no number, below, in and above
\* the range.
LimitTexts ==
    {<<>>, <<"x">>, <<"-", "1">>, <<"0">>, <<"1">>, <<"2">>, <<"2", "x">>,
     <<" ", "3">>, <<"2", "0", "0">>, <<"2", "0", "1">>, <<"9", "9", "9">>}
Limits == {Absent} \cup {Param(t) : t \in LimitTexts}

\* Values of the cursor parameter: absent, empty, blank, an id (padded or
\* not), and strings that are no id.
CursorTexts ==
    {<<>>, <<" ">>, <<"x">>, <<"1", "x">>, <<" ", "2", " ">>}
    \cup {IdToString(n) : n \in Ids}
Cursors == {Absent} \cup {Param(t) : t \in CursorTexts}

\* Values of the id of a delete body: absent, empty, an id, no id.
IdParams ==
    {Absent, Param(<<>>), Param(<<"x">>)} \cup {Param(IdToString(n)) : n \in Ids}

GetRequest(token, limit, cursor) ==
    [method |-> "GET", auth |-> token, limit |-> limit, cursor |-> cursor,
     id |-> Absent]
DeleteRequest(token, id) ==
    [method |-> "DELETE", auth |-> token, limit |-> Absent,
     cursor |-> Absent, id |-> id]

RouteInit ==
    /\ InitWith(MaxId + 2)
    /\ listCache = <<>>

\* The route answers one request.
Serve(request, now) ==
    LET r == handleGallery(store, request, now)
    IN  /\ store' = r.db
        /\ call' = [request |-> request, now |-> now, before |-> store,
                    response |-> r.response]
        /\ UNCHANGED <<issued, mounted, listVars, batchMode, pageVars,
                       flagVars, modalVars, toast, tasks, ops, finalized,
                       obs, last>>

\* A read with a good token: any limit with no cursor or the cursor of an
\* id, or any cursor with no limit or the client's page size.
ApiRead ==
    /\ \/ \E limit \in Limits,
             cursor \in {Absent, Param(IdToString(MaxId + 1))} :
             Serve(GetRequest(ValidToken, limit, cursor), MaxTime)
       \/ \E limit \in {Absent, Param(ToDecimal(PAGE_SIZE))},
             cursor \in Cursors :
             Serve(GetRequest(ValidToken, limit, cursor), MaxTime)
    /\ UNCHANGED walk

\* A delete with a good token and any id.
ApiDelete ==
    /\ \E id \in IdParams : Serve(DeleteRequest(ValidToken, id), MaxTime)
    /\ UNCHANGED walk

\* A read of the first page or a delete of the oldest id, with any token
\* at any time.
ApiAnyToken ==
    /\ \E token \in Tokens, now \in Times :
          \/ Serve(GetRequest(token, Param(ToDecimal(PAGE_SIZE)), Absent),
                   now)
          \/ Serve(DeleteRequest(token, Param(IdToString(1))), now)
    /\ UNCHANGED walk

\* A request with another method.
ApiOtherMethod ==
    /\ Serve([GetRequest(ValidToken, Absent, Absent)
                 EXCEPT !.method = "POST"], MaxTime)
    /\ UNCHANGED walk

RouteNext ==
    \/ ApiRead
    \/ ApiDelete
    \/ ApiAnyToken
    \/ ApiOtherMethod

SpecRoute == RouteInit /\ [][RouteNext]_vars

----------------------------------------------------------------------------
\* Keyset pagination under deletes: a reader follows nextCursor from the
\* first page while other requests delete entries.

WalkRequest(cursor) ==
    GetRequest(ValidToken, Param(ToDecimal(PAGE_SIZE)),
               IF cursor = NULL THEN Absent ELSE Param(IdToString(cursor)))

\* The reader fetches its first page.
WalkFirst ==
    /\ ~walk.started
    /\ Serve(WalkRequest(NULL), MaxTime)
    /\ LET page == handleGallery(store, WalkRequest(NULL), MaxTime).response
       IN  walk' = [started |-> TRUE,
                    limit |-> PAGE_SIZE,
                    cursor |-> page.nextCursor,
                    returned |-> page.items,
                    stable |-> store,
                    changed |-> FALSE,
                    cursorDeleted |-> FALSE,
                    done |-> ~page.hasMore]

\* The reader fetches the page after its cursor.
WalkNextPage ==
    /\ walk.started /\ ~walk.done
    /\ Serve(WalkRequest(walk.cursor), MaxTime)
    /\ LET page == handleGallery(store, WalkRequest(walk.cursor),
                                 MaxTime).response
       IN  walk' = [walk EXCEPT !.cursor = page.nextCursor,
                                !.returned = @ \o page.items,
                                !.done = ~page.hasMore]

\* Another request deletes an entry between two pages of the reader.
WalkDelete(id) ==
    /\ walk.started /\ ~walk.done
    /\ Serve(DeleteRequest(ValidToken, Param(IdToString(id))), MaxTime)
    /\ walk' = [walk EXCEPT !.stable = @ \ {id},
                            !.changed = @ \/ id \in store,
                            !.cursorDeleted =
                                @ \/ (id \in store /\ id = walk.cursor)]

KeysetNext ==
    \/ WalkFirst
    \/ WalkNextPage
    \/ \E id \in Ids : WalkDelete(id)

SpecKeyset == RouteInit /\ [][KeysetNext]_vars

----------------------------------------------------------------------------
\* The route /api/fileurl: handleFileUrl, one await at a time. Here a call
\* is [request, env, botToken, pc, contacted, response]: the request, the
\* worker's configuration, the bot token the chain uses, the await the
\* handler is suspended at (Done: it has answered), the upstream fetches
\* made so far in order, each [host, what, outcome], and the response.

Hosts == <<"official", "proxy">>
\* How a getFile lookup can end: fetch or resp.json() throws, data.ok is
\* false, no result.file_path, or a path.
Lookups == {"throws", "notOk", "noPath", "path"}
\* How the fetch of the bytes can end: it throws, or the response is ok or
\* not ok.
ByteFetches == {"throws", "notOk", "ok"}
FileIds == {Absent, Param(<<>>), Param(<<"f">>)}
\* env.BOT_TOKEN (or none), and what the document lookup gives: MONGO_URI
\* is unset, the lookup throws, there is no document with a bot token, or
\* there is one.
Envs == [botToken : {"", "env"},
         mongo : {"unset", "throws", "noToken", "token"}]

FileResponse(status) ==
    [status |-> status,
     body |-> IF status = 200 THEN "bytes" ELSE "error",
     cacheControl |-> IF status = 200
                      THEN "public, max-age=31536000, immutable" ELSE ""]
NoFileResponse == [status |-> 0, body |-> "", cacheControl |-> ""]

\* The await of the fetch of what ("getFile" or "file") at a host, and the
\* end of the handler.
At(host, what) == [host |-> host, what |-> what]
Done == At("", "done")

\* Where the handler goes when its attempt with a host has not produced the
\* bytes: to the next host's lookup, or to the final answer.
afterAttempt(host) ==
    IF host = "official" THEN At("proxy", "getFile") ELSE Done

\* A request arrives (the previous one has been answered): the handler runs
\* to its first upstream fetch, or answers at once.
FileUrlRequest ==
    /\ IF call.request.method = "NONE" THEN TRUE ELSE call.pc = Done
    /\ \E file_id \in FileIds, env \in Envs :
         LET botToken == IF env.mongo = "token" THEN "doc"
                         ELSE env.botToken
             early == IF ~file_id.present \/ file_id.text = <<>> THEN 400
                      ELSE IF botToken = "" THEN 500 ELSE 0
         IN  call' = [request |-> [method |-> "GET", file_id |-> file_id],
                      env |-> env,
                      botToken |-> IF early = 400 THEN "" ELSE botToken,
                      pc |-> IF early # 0 THEN Done
                             ELSE At("official", "getFile"),
                      contacted |-> <<>>,
                      response |-> IF early # 0 THEN FileResponse(early)
                                   ELSE NoFileResponse]
    /\ UNCHANGED <<serverVars, mounted, listVars, batchMode, pageVars,
                   flagVars, modalVars, toast, tasks, ops, finalized, obs,
                   last, walk>>

\* The getFile lookup at a host settles.
GetFile(host) ==
    /\ call.request.method = "GET"
    /\ call.pc = At(host, "getFile")
    /\ \E outcome \in Lookups :
         LET next == IF outcome = "path" THEN At(host, "file")
                     ELSE afterAttempt(host)
         IN  call' = [call EXCEPT
                        !.contacted = Append(@, [host |-> host,
                                                 what |-> "getFile",
                                                 outcome |-> outcome]),
                        !.pc = next,
                        !.response = IF next = Done THEN FileResponse(502)
                                     ELSE @]
    /\ UNCHANGED <<serverVars, mounted, listVars, batchMode, pageVars,
                   flagVars, modalVars, toast, tasks, ops, finalized, obs,
                   last, walk>>

\* Variant of FetchFile: the status of the byte response is not looked at.
FetchFile_StatusIgnored(host) ==
    /\ call.request.method = "GET"
    /\ call.pc = At(host, "file")
    /\ \E outcome \in ByteFetches :
         LET next == IF outcome # "throws" THEN Done
                     ELSE afterAttempt(host)
         IN  call' = [call EXCEPT
                        !.contacted = Append(@, [host |-> host,
                                                 what |-> "file",
                                                 outcome |-> outcome]),
                        !.pc = next,
                        !.response = IF outcome # "throws"
                                     THEN FileResponse(200)
                                     ELSE IF next = Done
                                          THEN FileResponse(502) ELSE @]
    /\ UNCHANGED <<serverVars, mounted, listVars, batchMode, pageVars,
                   flagVars, modalVars, toast, tasks, ops, finalized, obs,
                   last, walk>>

\* The fetch of the bytes at a host settles.
FetchFile(host) ==
    /\ call.request.method = "GET"
    /\ call.pc = At(host, "file")
    /\ \E outcome \in ByteFetches :
         LET next == IF outcome = "ok" THEN Done ELSE afterAttempt(host)
         IN  call' = [call EXCEPT
                        !.contacted = Append(@, [host |-> host,
                                                 what |-> "file",
                                                 outcome |-> outcome]),
                        !.pc = next,
                        !.response = IF outcome = "ok"
                                     THEN FileResponse(200)
                                     ELSE IF next = Done
                                          THEN FileResponse(502) ELSE @]
    /\ UNCHANGED <<serverVars, mounted, listVars, batchMode, pageVars,
                   flagVars, modalVars, toast, tasks, ops, finalized, obs,
                   last, walk>>

LocatorInit == InitWith(0)

LocatorNext ==
    \/ FileUrlRequest
    \/ \E i \in DOMAIN Hosts : GetFile(Hosts[i])
    \/ \E i \in DOMAIN Hosts : FetchFile(Hosts[i])

SpecLocator == LocatorInit /\ [][LocatorNext]_vars

----------------------------------------------------------------------------
\* The fetch boundary of the client: fetchGalleryPage over every body the
\* route, an older deployment of it or a broken one can answer with. A
\* JSON value is [t, v]: its type and its value (array: the ids of its
\* items; string: its characters). Here a call is [request, pc, resp,
\* result]: the query sent, whether the fetch is awaited or done, the
\* response [ok, body] and what fetchGalleryPage returned or threw.

Js(t, v) == [t |-> t, v |-> v]
Undefined == Js("undefined", 0)
JsNull == Js("null", 0)

\* Boolean(x), and the left operand test of x || y.
Truthy(x) ==
    CASE x.t \in {"undefined", "null"} -> FALSE
      [] x.t = "boolean" -> x.v
      [] x.t = "number" -> x.v # 0
      [] x.t = "string" -> x.v # <<>>
      [] OTHER -> TRUE

ItemLists == DescLists(Ids, PAGE_SIZE + 1)
\* Bodies: unparsable (body stays null), a legacy array, or an object with
\* any of the fields items, hasMore, nextCursor, error.
Bodies ==
    {JsNull}
    \cup {Js("array", l) : l \in ItemLists}
    \cup [t : {"object"},
          items : {Undefined, JsNull} \cup {Js("array", l) : l \in ItemLists},
          hasMore : {Undefined, JsNull, Js("boolean", TRUE),
                     Js("boolean", FALSE), Js("number", 0), Js("number", 1),
                     Js("string", <<"n", "o">>)},
          nextCursor : {Undefined, JsNull, Js("string", <<>>)}
                       \cup {Js("string", IdToString(n)) : n \in Ids},
          error : {Undefined, Js("string", <<"e">>)}]

\* body?.field.
Field(body, name) ==
    IF body.t # "object" THEN Undefined
    ELSE CASE name = "items" -> body.items
           [] name = "hasMore" -> body.hasMore
           [] name = "nextCursor" -> body.nextCursor
           [] OTHER -> body.error

Thrown(message) == [failed |-> TRUE, message |-> message, page |-> NoPage]
Returned(page) == [failed |-> FALSE, message |-> Undefined, page |-> page]

\* Variant of fetchGalleryPage: a legacy array has more only when it is
\* longer than the limit.
fetchGalleryPage_LegacyStrict(resp, limit) ==
    LET body == resp.body
    IN  IF ~resp.ok
        THEN Thrown(IF Truthy(Field(body, "error"))
                    THEN Field(body, "error")
                    ELSE Js("string", <<"F">>))
        ELSE IF body.t = "array"
        THEN Returned(
                 [items |-> body.v,
                  hasMore |-> Len(body.v) > limit,
                  nextCursor |->
                      IF Len(body.v) > 0
                      THEN Js("string", IdToString(body.v[Len(body.v)]))
                      ELSE JsNull])
        ELSE Returned(
                 [items |-> IF Field(body, "items").t = "array"
                            THEN Field(body, "items").v ELSE <<>>,
                  hasMore |-> Truthy(Field(body, "hasMore")),
                  nextCursor |-> IF Truthy(Field(body, "nextCursor"))
                                 THEN Field(body, "nextCursor")
                                 ELSE JsNull])

\* fetchGalleryPage from the response on: what it returns or throws. The
\* message 'Failed to load' is written "F".
fetchGalleryPage(resp, limit) ==
    LET body == resp.body
    IN  IF ~resp.ok
        THEN Thrown(IF Truthy(Field(body, "error"))
                    THEN Field(body, "error")
                    ELSE Js("string", <<"F">>))
        ELSE IF body.t = "array"
        THEN Returned(
                 [items |-> body.v,
                  hasMore |-> Len(body.v) >= limit,
                  nextCursor |->
                      IF Len(body.v) > 0
                      THEN Js("string", IdToString(body.v[Len(body.v)]))
                      ELSE JsNull])
        ELSE Returned(
                 [items |-> IF Field(body, "items").t = "array"
                            THEN Field(body, "items").v ELSE <<>>,
                  hasMore |-> Truthy(Field(body, "hasMore")),
                  nextCursor |-> IF Truthy(Field(body, "nextCursor"))
                                 THEN Field(body, "nextCursor")
                                 ELSE JsNull])

\* fetchGalleryPage(cursor, PAGE_SIZE) up to its await of the fetch: the
\* limit is sent in decimal, the cursor only when it is not null.
FetchSend(cursor) ==
    /\ IF call.request.method = "NONE" THEN TRUE ELSE call.pc = "done"
    /\ call' = [request |->
                   [method |-> "GET",
                    limit |-> Param(ToDecimal(PAGE_SIZE)),
                    cursor |-> IF cursor = NULL THEN Absent
                               ELSE Param(IdToString(cursor))],
                pc |-> "await",
                resp |-> [ok |-> FALSE, body |-> JsNull],
                result |-> Thrown(Undefined)]
    /\ UNCHANGED <<serverVars, mounted, listVars, batchMode, pageVars,
                   flagVars, modalVars, toast, tasks, ops, finalized, obs,
                   last, walk>>

\* The fetch is answered and fetchGalleryPage runs to its end.
FetchSettle ==
    /\ call.request.method = "GET"
    /\ call.pc = "await"
    /\ \E ok \in BOOLEAN, body \in Bodies :
         LET resp == [ok |-> ok, body |-> body]
         IN  call' = [call EXCEPT
                        !.pc = "done",
                        !.resp = resp,
                        !.result = fetchGalleryPage(resp, PAGE_SIZE)]
    /\ UNCHANGED <<serverVars, mounted, listVars, batchMode, pageVars,
                   flagVars, modalVars, toast, tasks, ops, finalized, obs,
                   last, walk>>

FetchNext ==
    \/ \E cursor \in {NULL} \cup Ids : FetchSend(cursor)
    \/ FetchSettle

SpecFetch == LocatorInit /\ [][FetchNext]_vars

----------------------------------------------------------------------------
\* The session with every delete request settling in the end: the server
\* answers it, or the fetch throws. The store holds the two newest ids and
\* the list cache a top page of them, no entry is ingested, and the whole
\* list is selected at once.

LiveNext ==
    \/ \E t \in TaskIdx : ServeGet(t)
    \/ \E t \in TaskIdx, id \in Ids : ServeDelete(t, id)
    \/ onMounted
    \/ forceRefreshAll
    \/ \E t \in TaskIdx, failed \in BOOLEAN : loadResume(t, failed)
    \/ loadMore
    \/ \E t \in TaskIdx, failed \in BOOLEAN : loadMoreResume(t, failed)
    \/ \E e \in Ids : openDeleteModal(e)
    \/ performDelete
    \/ \E t \in TaskIdx, failed \in BOOLEAN : performDeleteResume(t, failed)
    \/ toggleBatchMode
    \/ toggleSelectAllEntries
    \/ performBatchDelete
    \/ \E t \in TaskIdx, failed \in BOOLEAN : batchResume(t, failed)

DeleteSettles ==
    /\ WF_vars(\E t \in TaskIdx, failed \in BOOLEAN :
                  performDeleteResume(t, failed))
    /\ WF_vars(\E t \in TaskIdx, failed \in BOOLEAN : batchResume(t, failed))

LiveInit ==
    /\ InitWith(MaxId)
    /\ store = {MaxId - 1, MaxId}
    /\ IdSet(listCache) \subseteq store

SpecLive == LiveInit /\ [][LiveNext]_vars /\ DeleteSettles

----------------------------------------------------------------------------
\* The detail dialog: open, close, prevImage and nextImage, interleaved with
\* the loads, loadMore and single deletes of the session, over a store of up
\* to MaxId entries.

dialogOpen == selectedIndex >= 0

\* A click on a card outside batch mode; the cards are under the dialog
\* while it is open.
open(entry) ==
    /\ UNCHANGED apiVars
    /\ clickable /\ ~loading /\ ~batchMode /\ ~dialogOpen
    /\ entry \in IdSet(entries)
    /\ selectedIndex' = findIndex(entries, entry)
    /\ obs' = NoObs
    /\ last' = NoLast
    /\ toast' = NoToast
    /\ UNCHANGED <<serverVars, mounted, entries, pendingDeleteIds,
                   selectedEntryIds, listCache, imageCache, batchMode,
                   pageVars, flagVars, modalVars, tasks, ops, finalized>>

close ==
    /\ UNCHANGED apiVars
    /\ dialogOpen
    /\ selectedIndex' = 0 - 1
    /\ obs' = NoObs
    /\ last' = NoLast
    /\ toast' = NoToast
    /\ UNCHANGED <<serverVars, mounted, entries, pendingDeleteIds,
                   selectedEntryIds, listCache, imageCache, batchMode,
                   pageVars, flagVars, modalVars, tasks, ops, finalized>>

prevImage ==
    /\ UNCHANGED apiVars
    /\ dialogOpen
    /\ selectedIndex' = IF selectedIndex > 0 THEN selectedIndex - 1
                        ELSE selectedIndex
    /\ obs' = NoObs
    /\ last' = NoLast
    /\ toast' = NoToast
    /\ UNCHANGED <<serverVars, mounted, entries, pendingDeleteIds,
                   selectedEntryIds, listCache, imageCache, batchMode,
                   pageVars, flagVars, modalVars, tasks, ops, finalized>>

nextImage ==
    /\ UNCHANGED apiVars
    /\ dialogOpen
    /\ selectedIndex' = IF selectedIndex < Len(entries) - 1
                        THEN selectedIndex + 1
                        ELSE selectedIndex
    /\ obs' = NoObs
    /\ last' = NoLast
    /\ toast' = NoToast
    /\ UNCHANGED <<serverVars, mounted, entries, pendingDeleteIds,
                   selectedEntryIds, listCache, imageCache, batchMode,
                   pageVars, flagVars, modalVars, tasks, ops, finalized>>

DetailInit == InitWith(MaxId)

DetailNext ==
    \/ \E t \in TaskIdx : ServeGet(t)
    \/ \E t \in TaskIdx, id \in Ids : ServeDelete(t, id)
    \/ onMounted
    \/ forceRefreshAll
    \/ \E t \in TaskIdx, failed \in BOOLEAN : loadResume(t, failed)
    \/ loadMore
    \/ \E t \in TaskIdx, failed \in BOOLEAN : loadMoreResume(t, failed)
    \/ \E e \in Ids : open(e)
    \/ close
    \/ prevImage
    \/ nextImage
    \/ \E e \in Ids : openDeleteModal(e)
    \/ performDelete
    \/ \E t \in TaskIdx, failed \in BOOLEAN : performDeleteResume(t, failed)

SpecDetail == DetailInit /\ [][DetailNext]_vars

----------------------------------------------------------------------------
\* Scrolling to the end: the mount's load and then loadMore as often as the
\* viewport observer triggers it, over a store that does not change, with
\* every fetch answered and no fetch failing.

ScrollNext ==
    \/ \E t \in TaskIdx : ServeGet(t)
    \/ onMounted
    \/ \E t \in TaskIdx : loadResume(t, FALSE)
    \/ loadMore
    \/ \E t \in TaskIdx : loadMoreResume(t, FALSE)

ScrollFair ==
    /\ WF_vars(onMounted)
    /\ WF_vars(\E t \in TaskIdx : ServeGet(t))
    /\ WF_vars(\E t \in TaskIdx : loadResume(t, FALSE))
    /\ WF_vars(loadMore)
    /\ WF_vars(\E t \in TaskIdx : loadMoreResume(t, FALSE))

SpecScroll == PagingInit /\ [][ScrollNext]_vars /\ ScrollFair

----------------------------------------------------------------------------
\* Properties.

DeleteTasks == {t \in DOMAIN tasks : tasks[t].kind \in {"del", "batch"}}
BatchTasks  == {t \in DOMAIN tasks : tasks[t].kind = "batch"}
PageTasks   == {t \in DOMAIN tasks : tasks[t].kind \in {"load", "more"}}

\* A single delete that ran alone has ended with a failure.
SoloSingleFailed ==
    obs.tag = "single" /\ obs.done /\ obs.failed # {}

\* A batch delete that ran alone has ended.
SoloBatchDone == obs.tag = "batch" /\ obs.done

C2_NeverResurrected ==
    finalized \cap IdSet(entries) = {}

\* C3: a single delete of a visible entry that fails, with no other
\* operation interleaved, ends with a visible list that has the same set of
\* ids as before the attempt.
C3_RollbackSetEqual ==
    (SoloSingleFailed /\ obs.ids[1] \in IdSet(obs.before))
        => IdSet(entries) = IdSet(obs.before)

\* C3 witness: such a delete of a visible entry has just failed.
C3_Witness ==
    /\ SoloSingleFailed
    /\ obs.ids[1] \in IdSet(obs.before)
    /\ last.op = "restore"

\* C4: a failed single delete puts the entry back at index
\* min(originalIndex, currentLength), leaving the other entries as they are,
\* and clears its pending flag; when no operation was interleaved the list is
\* the list before the delete, in the same order, and nothing is pending.
C4_FailedDeleteReinserts ==
    /\ (last.op = "restore" /\ last.by = "single" /\ last.index >= 0
            /\ last.id \notin IdSet(last.pre))
           => /\ Len(entries) = Len(last.pre) + 1
              /\ entries[Min(last.index, Len(last.pre)) + 1] = last.id
              /\ FilterOut(entries, {last.id}) = last.pre
              /\ last.id \notin pendingDeleteIds
    /\ (SoloSingleFailed /\ obs.ids[1] \in IdSet(obs.before))
           => /\ entries = obs.before
              /\ pendingDeleteIds = {}

\* C4 witness: a single delete that ran alone on a list of two or more has
\* just failed for an entry that was not the first of the list.
C4_Witness ==
    /\ SoloSingleFailed
    /\ last.op = "restore" /\ last.by = "single"
    /\ last.index >= 1
    /\ Len(obs.before) >= 2

\* C5: when the delete endpoint answers NotFound for an entry that was
\* hidden optimistically, the entry ends absent from the visible list as
\* after a success, and a batch's report counts the outcome as a failure.
C5_NotFoundLooksLikeSuccess ==
    /\ (last.op \in {"restore", "finalize"} /\ last.reply = "nf"
            /\ last.index >= 0)
           => last.id \notin IdSet(entries)
    /\ SoloBatchDone => toast.fail >= Cardinality(obs.nf)

\* C6: a batch delete of N selected visible entries that runs alone, M of
\* whose requests succeed, reports M successes and N - M failures and ends
\* with the initial list minus the M successful ids.
C6_BatchAccounting ==
    SoloBatchDone
        => /\ toast = [msg |-> "batch",
                       ok |-> Cardinality(obs.succ),
                       fail |-> Len(obs.ids) - Cardinality(obs.succ)]
           /\ Cardinality(obs.failed) = Len(obs.ids) - Cardinality(obs.succ)
           /\ entries = FilterOut(obs.before, obs.succ)

\* C7: a batch has exactly one delete request outstanding, the one of its
\* current item, and the outcomes of all earlier items have been counted
\* by then (a failure among them did not stop the loop); in a batch that
\* runs alone no item that succeeded is visible or pending again.
C7_BatchSequential ==
    /\ \A t \in BatchTasks :
          /\ Cardinality(tasks[t].reqs) = 1
          /\ \A r \in tasks[t].reqs : r.id = tasks[t].ids[tasks[t].i]
          /\ tasks[t].successCount + tasks[t].failCount = tasks[t].i - 1
    /\ (obs.tag = "batch")
           => /\ obs.succ \cap IdSet(entries) = {}
              /\ obs.succ \cap pendingDeleteIds = {}
              /\ obs.succ \cap obs.failed = {}

\* C7 witness: the first item of a batch has failed and the request of the
\* second item is outstanding.
C7_Witness ==
    \E t \in BatchTasks :
        /\ tasks[t].i = 2
        /\ tasks[t].failCount = 1
        /\ [id |-> tasks[t].ids[2], st |-> "req"] \in tasks[t].reqs

\* C8: whenever no delete request is outstanding pendingDeleteIds is empty,
\* and an entry whose delete attempt has just completed is visible and not
\* pending after a failure, absent and not pending after a success.
C8_NoLimbo ==
    /\ DeleteTasks = {} => pendingDeleteIds = {}
    /\ last.op = "restore"
           => last.id \in IdSet(entries) /\ last.id \notin pendingDeleteIds
    /\ last.op = "finalize"
           => last.id \notin IdSet(entries) /\ last.id \notin pendingDeleteIds

\* C9: the visible list never holds the same id twice.
C9_NoDuplicateIds ==
    NoDuplicates(entries)

\* C9 witness: loadMore has just merged a page that held an id already in
\* the list.
C9_Witness ==
    /\ last.op = "more"
    /\ last.dups # {}

\* C10: every item and every non-null nextCursor of a page requested with
\* cursor c is below c, and a loadMore that merges the page requested with
\* the cursor the client still holds leaves a cursor that is null or lower.
C10_MonotonicCursor ==
    /\ \A t \in PageTasks :
          (tasks[t].st = "ok" /\ tasks[t].cursor # NULL)
              => /\ \A k \in DOMAIN tasks[t].page.items :
                       tasks[t].page.items[k] < tasks[t].cursor
                 /\ \/ tasks[t].page.nextCursor = NULL
                    \/ tasks[t].page.nextCursor < tasks[t].cursor
    /\ (last.op = "more" /\ last.prev = last.cursor)
           => \/ paginationCursor = NULL
              \/ paginationCursor < last.prev

\* C10 witness: a loadMore has just moved the cursor from one id to a lower
\* id.
C10_Witness ==
    /\ last.op = "more"
    /\ last.prev = last.cursor
    /\ paginationCursor # NULL
    /\ paginationCursor < last.prev

----------------------------------------------------------------------------
\* Properties of the route.

\* The last request was a read answered with a page.
PageCall ==
    /\ call.request.method = "GET"
    /\ call.response.status = 200
    /\ call.response.kind = "page"

\* The ids of the store it met that lie below the id its cursor parameter
\* names (all of them when it names none).
CallBelow ==
    LET text == IF call.request.cursor.present
                THEN Trim(call.request.cursor.text) ELSE <<>>
    IN  IF text = <<>> THEN call.before
        ELSE {id \in call.before : id < ObjectIdOf(text)}

\* C11: a page holds the (at most limit) largest ids strictly below the
\* cursor (all ids when there is no cursor) in strictly descending order;
\* hasMore is true exactly when the store holds an entry below the last
\* item of the page; nextCursor is the last item when hasMore and null
\* otherwise.
C11_PageContract ==
    PageCall =>
        LET items == call.response.items
            n     == Len(items)
        IN  /\ StrictlyDescending(items)
            /\ IdSet(items) \subseteq CallBelow
            /\ n = Min(call.response.limit, Cardinality(CallBelow))
            /\ \A a \in CallBelow \ IdSet(items) :
                  \A b \in IdSet(items) : a < b
            /\ call.response.hasMore
                  <=> (n > 0 /\ \E id \in call.before : id < items[n])
            /\ call.response.nextCursor
                  = IF call.response.hasMore THEN items[n] ELSE NULL

\* A page below a cursor that leaves entries above it out and entries
\* below its last item for the next page.
C11_Witness ==
    /\ PageCall
    /\ call.request.cursor.present
    /\ CallBelow # call.before
    /\ Len(call.response.items) = call.response.limit
    /\ call.response.hasMore
    /\ call.response.nextCursor
          = call.response.items[Len(call.response.items)]

\* C12: a reader that follows nextCursor from the first page until hasMore
\* is false, while entries are deleted between its pages (the entry of its
\* cursor included), receives no id twice and misses no entry that stays
\* undeleted; when nothing is deleted it receives every entry exactly once.
C12_KeysetSafe ==
    walk.started =>
        /\ NoDuplicates(walk.returned)
        /\ walk.done => walk.stable \subseteq IdSet(walk.returned)
        /\ (walk.done /\ ~walk.changed) => IdSet(walk.returned) = store

\* A finished walk of several pages during which the entry of the cursor
\* was deleted and other entries stayed.
C12_Witness ==
    /\ walk.started /\ walk.done
    /\ walk.cursorDeleted
    /\ Len(walk.returned) > walk.limit
    /\ Cardinality(walk.stable) >= 2

\* C13 (as amended): the limit of a page is within MIN_LIMIT..MAX_LIMIT and
\* the page holds no more items than it; a limit parameter that starts,
\* after white space and a sign, with decimal digits gives the number those
\* digits write, raised to MIN_LIMIT or lowered to MAX_LIMIT; a missing
\* limit or one with no such digits gives DEFAULT_LIMIT.
C13_LimitClamped ==
    PageCall =>
        LET raw   == call.request.limit
            body  == TrimStart(raw.text)
            minus == body # <<>> /\ Head(body) = "-"
            rest  == IF body # <<>> /\ Head(body) \in {"-", "+"}
                     THEN Tail(body) ELSE body
            lead  == DigitPrefix(rest)
            value == IF minus THEN 0 - DigitsValue(lead)
                     ELSE DigitsValue(lead)
            limit == call.response.limit
        IN  /\ limit \in MIN_LIMIT..MAX_LIMIT
            /\ Len(call.response.items) <= limit
            /\ (~raw.present \/ lead = <<>>) => limit = DEFAULT_LIMIT
            /\ (raw.present /\ lead # <<>>) =>
                  limit = IF value < MIN_LIMIT THEN MIN_LIMIT
                          ELSE IF value > MAX_LIMIT THEN MAX_LIMIT
                          ELSE value

\* A page as long as its limit, for a limit parameter whose digits are
\* followed by another character.
C13_Witness ==
    /\ PageCall
    /\ call.request.limit.present
    /\ DigitPrefix(call.request.limit.text) # call.request.limit.text
    /\ DigitPrefix(call.request.limit.text) # <<>>
    /\ call.response.limit # DEFAULT_LIMIT
    /\ Len(call.response.items) = call.response.limit

\* C13 (as stated): the limit of a page is within 1..200 and the page holds
\* no more items than it; a limit parameter that is an integer is clamped
\* to that range; a missing limit or one that is not a number gives 60.
C13_NonNumericGivesDefault ==
    PageCall =>
        LET raw     == call.request.limit
            minus   == raw.text # <<>> /\ Head(raw.text) = "-"
            rest    == IF minus THEN Tail(raw.text) ELSE raw.text
            integer == raw.present /\ rest # <<>> /\ DigitPrefix(rest) = rest
            value   == IF minus THEN 0 - DigitsValue(rest)
                       ELSE DigitsValue(rest)
            limit   == call.response.limit
        IN  /\ limit \in 1..200
            /\ Len(call.response.items) <= limit
            /\ integer =>
                  limit = IF value < 1 THEN 1
                          ELSE IF value > 200 THEN 200 ELSE value
            /\ ~integer => limit = 60

\* C14: a read whose cursor parameter is not a well-formed id, once its
\* surrounding white space is removed, is answered 400; it is never
\* answered with a first page or with the legacy list.
C14_MalformedCursorRejected ==
    (/\ call.request.method = "GET"
     /\ authorized(call.request.auth, call.now)
     /\ call.request.cursor.present
     /\ call.request.cursor.text # <<>>
     /\ ~ObjectIdIsValid(Trim(call.request.cursor.text)))
    => /\ call.response.status = 400
       /\ call.response.kind \notin {"page", "legacy"}

\* C15: a read or a delete that carries no token, a token that is not three
\* parts, a token whose signature does not verify, or a token that expired
\* before the request is answered 401 with no entries, and leaves the store
\* as it met it.
C15_UnauthorizedTouchesNothing ==
    (/\ call.request.method \in {"GET", "DELETE"}
     /\ \/ ~call.request.auth.present
        \/ call.request.auth.parts # 3
        \/ ~call.request.auth.signed
        \/ (call.request.auth.exp # 0
            /\ call.request.auth.exp < call.now))
    => /\ call.response.status = 401
       /\ call.response.items = <<>>
       /\ call.response.deletedId = NULL
       /\ store = call.before

\* A delete of a stored entry with a signed token that has expired: 401,
\* and the entry is still stored.
C15_Witness ==
    /\ call.request.method = "DELETE"
    /\ call.request.auth.present
    /\ call.request.auth.parts = 3
    /\ call.request.auth.signed
    /\ call.request.auth.exp # 0
    /\ call.request.auth.exp < call.now
    /\ call.request.id.present
    /\ ObjectIdIsValid(call.request.id.text)
    /\ ObjectIdOf(call.request.id.text) \in call.before
    /\ call.response.status = 401
    /\ ObjectIdOf(call.request.id.text) \in store

\* C16: an authorized delete of a stored id removes that entry and no
\* other and is answered 200 with the deleted id; an authorized delete of
\* an id that is not stored (already removed) is answered 404 and a delete
\* without id 400, and both leave the store as it was.
C16_DeleteContract ==
    (call.request.method = "DELETE"
     /\ authorized(call.request.auth, call.now)) =>
        LET id == call.request.id
        IN  /\ (~id.present \/ id.text = <<>>) =>
                  /\ call.response.status = 400
                  /\ store = call.before
            /\ (id.present /\ ObjectIdIsValid(id.text)) =>
                  IF ObjectIdOf(id.text) \in call.before
                  THEN /\ call.response.status = 200
                       /\ call.response.deletedId = ObjectIdOf(id.text)
                       /\ store = call.before \ {ObjectIdOf(id.text)}
                  ELSE /\ call.response.status = 404
                       /\ call.response.deletedId = NULL
                       /\ store = call.before

\* A delete answered 200 that leaves other entries stored.
C16_Witness ==
    /\ call.request.method = "DELETE"
    /\ call.response.status = 200
    /\ call.response.deletedId \in call.before
    /\ call.response.deletedId \notin store
    /\ store # {}

----------------------------------------------------------------------------
\* Properties of the synchronization engine.

\* C17: when the page of a forced refresh is merged, the list becomes the
\* page without the ids pending deletion, followed by every entry that was
\* visible before the merge and is not in that page, in the order they had.
C17_ForcedRefreshKeepsTail ==
    (last.op = "top" /\ last.forced) =>
        LET top == FilterOut(last.page.items, pendingDeleteIds)
        IN  entries = top \o FilterOut(last.pre, IdSet(top))

\* A forced refresh merged into a populated list that keeps an entry the
\* page does not hold.
C17_Witness ==
    /\ last.op = "top" /\ last.forced /\ last.had
    /\ last.page.items # <<>>
    /\ FilterOut(last.pre, IdSet(last.page.items)) # <<>>
    /\ Len(entries) > Len(last.page.items)

\* C18: when the page of a forced refresh is merged while a cursor is set,
\* the cursor and hasMore stay as they were; the page's cursor is adopted
\* only when none was set.
C18_ForcedRefreshKeepsCursor ==
    (last.op = "top" /\ last.forced) =>
        IF last.prev # NULL
        THEN paginationCursor = last.prev /\ hasMore = last.prevMore
        ELSE paginationCursor = last.page.nextCursor

\* C19: when the page of a load that was not forced, or that was called on
\* an empty list, is merged, the list becomes the page without the ids
\* pending deletion, and the cursor and hasMore become the page's.
C19_PlainLoadReplaces ==
    (last.op = "top" /\ (~last.forced \/ ~last.had)) =>
        /\ entries = FilterOut(last.page.items, pendingDeleteIds)
        /\ paginationCursor = last.page.nextCursor
        /\ hasMore = last.page.hasMore

\* C20: at most one loadMore fetch is outstanding at any time, and it was
\* requested with a cursor; from a state where a loadMore fetch is
\* outstanding, the list is loading, hasMore is false or the cursor is null,
\* no step adds a loadMore fetch and a call of loadMore changes nothing.
C20_LoadMoreReentrancy ==
    /\ [](/\ Cardinality({t \in DOMAIN tasks : tasks[t].kind = "more"}) <= 1
          /\ \A t \in DOMAIN tasks :
                tasks[t].kind = "more" =>
                    loadingMore /\ tasks[t].cursor # NULL)
    /\ [][(loading \/ loadingMore \/ ~hasMore \/ paginationCursor = NULL)
            => /\ Cardinality({t \in DOMAIN tasks' :
                                  tasks'[t].kind = "more"})
                    <= Cardinality({t \in DOMAIN tasks :
                                       tasks[t].kind = "more"})
               /\ loadMore => UNCHANGED vars]_vars

\* A loadMore fetch is outstanding while the list could still grow: hasMore
\* is true, the cursor is set and no load is painting.
C20_Witness ==
    /\ Cardinality({t \in DOMAIN tasks : tasks[t].kind = "more"}) = 1
    /\ loadingMore /\ ~loading
    /\ hasMore /\ paginationCursor # NULL

\* C21: while the fetch of a load is outstanding, no call of load or
\* loadMore issues another fetch: no fetch of a page was requested after a
\* load that is still in flight (tasks are in the order they were called).
C21_NoFetchWhileLoadInFlight ==
    \A t, u \in DOMAIN tasks :
        (t < u /\ tasks[t].kind = "load") =>
            tasks[u].kind \notin {"load", "more"}

\* C22: when the fetch of load or loadMore has failed (the error is
\* recorded), the visible list, the cursor, hasMore, the pending set and the
\* list cache are what they were before the failure, the loading flag of
\* the call that failed is clear, and that call has ended without another
\* fetch being issued.
C22_FetchFailureKeepsState ==
    last.op = "error" =>
        /\ entries = last.pre
        /\ paginationCursor = last.prev
        /\ hasMore = last.prevMore
        /\ pendingDeleteIds = last.pending
        /\ listCache = last.cache
        /\ last.by = "load" => ~loading
        /\ last.by = "more" => ~loadingMore
        /\ Len(tasks) = last.inFlight - 1

\* The fetch of a load has failed on a populated list with a cursor and a
\* list cache.
C22_Witness ==
    /\ last.op = "error" /\ last.by = "load"
    /\ entries # <<>> /\ listCache # <<>>
    /\ paginationCursor # NULL

\* C23 as stated: when a load that painted from a non-empty list cache
\* merges a first page whose entries are exactly the cached ones, the merge
\* leaves the visible list as it found it and the list cache is the one the
\* load painted from.
C23_ReplayChangesNothing ==
    (/\ last.op = "top"
     /\ last.painted # <<>>
     /\ last.page.items = last.painted) =>
        /\ entries = last.pre
        /\ listCache = last.painted

\* C23: when a load that painted from a non-empty list cache merges a first
\* page whose entries are exactly the cached ones, the visible list and the
\* list cache are both the cached list less the ids pending deletion at the
\* merge, in the cached order and without duplicates: with nothing pending
\* the replay changes nothing.
C23_ReplayKeepsCachedList ==
    (/\ last.op = "top"
     /\ last.painted # <<>>
     /\ last.page.items = last.painted) =>
        /\ entries = FilterOut(last.painted, pendingDeleteIds)
        /\ listCache = FilterOut(last.painted, pendingDeleteIds)
        /\ NoDuplicates(entries)
        /\ pendingDeleteIds = {} =>
              (entries = last.painted /\ listCache = last.painted)

\* A painted load has merged the page that equals its cache, with nothing
\* pending; and one has done so while a cached id was pending.
C23_Witness ==
    /\ last.op = "top"
    /\ last.painted # <<>>
    /\ last.page.items = last.painted
    /\ pendingDeleteIds = {}
    /\ entries = last.painted


\* C24: in every reachable state the batch selection holds only ids of
\* entries that are in the in-memory list.
C24_SelectionWithinList ==
    selectedEntryIds \subseteq IdSet(entries)


----------------------------------------------------------------------------
\* Properties of the file route.

\* C25: in the chain of handleFileUrl the proxy is contacted only after
\* every fetch at the official host has been made and the last of them
\* failed (the lookup threw, was not ok or gave no path, or the bytes could
\* not be fetched or came with a status that is not ok); a request that has
\* reached the chain is answered 200 with the bytes and the immutable
\* long-lived cache directive exactly when the last fetch made is a fetch of
\* bytes that was ok, at the official host or, that attempt having failed,
\* at the proxy; and when both attempts have failed it is answered 502,
\* whatever threw.
C25_FallbackChain ==
    call.request.method = "GET" =>
        LET made == call.contacted
            Failed(f) == \/ f.what = "getFile" /\ f.outcome # "path"
                         \/ f.what = "file" /\ f.outcome # "ok"
            AttemptOk(host) ==
                \E i \in DOMAIN made :
                    made[i] = [host |-> host, what |-> "file",
                               outcome |-> "ok"]
            AttemptFailed(host) ==
                \E i \in DOMAIN made :
                    made[i].host = host /\ Failed(made[i])
        IN  /\ \A i \in DOMAIN made :
                 made[i].host = "proxy" =>
                     /\ AttemptFailed("official")
                     /\ \A j \in DOMAIN made :
                          made[j].host = "official" => j < i
            /\ (call.pc = Done /\ made # <<>>) =>
                 /\ call.response.status = 200 <=>
                        \/ AttemptOk("official")
                        \/ AttemptFailed("official") /\ AttemptOk("proxy")
                 /\ call.response.status = 200 =>
                        /\ call.response.body = "bytes"
                        /\ call.response.cacheControl =
                               "public, max-age=31536000, immutable"
                        /\ made[Len(made)].outcome = "ok"
                 /\ (AttemptFailed("official") /\ AttemptFailed("proxy")) <=>
                        call.response.status = 502
            /\ call.pc # Done => call.response = NoFileResponse

\* The official attempt failed at the byte fetch and the proxy served the
\* bytes.
C25_Witness ==
    /\ call.request.method = "GET"
    /\ call.pc = Done
    /\ Len(call.contacted) = 4
    /\ call.contacted[2].outcome = "notOk"
    /\ call.response.status = 200


\* C26 as stated: no step other than the user's clear-image-cache action
\* removes a file reference from the image cache.
C26_OnlyClearRemovesKeys ==
    [][toast'.msg = "cacheCleared" \/ imageCache \subseteq imageCache']_vars

\* C26: a file reference leaves the image cache only in the user's
\* clear-image-cache action, or in the step that finalizes a successful
\* delete, and that step removes no other key than the deleted entry's.
C26_KeysLeaveByClearOrFinalize ==
    [][\/ toast'.msg = "cacheCleared"
       \/ imageCache \subseteq imageCache'
       \/ /\ last'.op = "finalize"
          /\ imageCache \ imageCache' = {last'.id}]_vars

\* A successful delete has been finalized and has left the other keys of
\* the image cache in place.
C26_Witness ==
    /\ last.op = "finalize"
    /\ last.id \notin imageCache
    /\ imageCache # {}


\* C27: in the state a successful delete is finalized in, the entry's id is
\* not in the list cache and its file reference is not in the image cache;
\* and no id a delete was finalized for is ever in the list cache again.
C27_DeletedStaysOutOfCaches ==
    /\ last.op = "finalize" =>
          /\ last.id \notin IdSet(listCache)
          /\ last.id \notin imageCache
    /\ \A id \in finalized : id \notin IdSet(listCache)


\* C28: in the state a top-page merge leaves, the list cache is the merged
\* server page without the ids pending deletion, cut to PAGE_SIZE entries;
\* and in every state the list cache holds at most PAGE_SIZE entries,
\* however long the visible list has grown.
C28_ListCacheIsTopPage ==
    /\ last.op = "top" =>
          listCache = Slice(FilterOut(last.page.items, pendingDeleteIds),
                            PAGE_SIZE)
    /\ Len(listCache) <= PAGE_SIZE

\* A forced refresh has merged a full page into a list with a loaded tail:
\* the list is longer than a page, the cache is exactly the page.
C28_Witness ==
    /\ last.op = "top"
    /\ last.forced
    /\ Len(last.page.items) = PAGE_SIZE
    /\ Len(entries) > PAGE_SIZE
    /\ listCache = last.page.items

\* C29: in the state performBatchDelete awaits its first delete request in,
\* only that request of the batch has been issued, every target has left
\* the visible list and is in pendingDeleteIds, and the selection is empty.
C29_BatchHidesUpFront ==
    (last.op = "hide" /\ last.by = "batch") =>
        LET task == tasks[Len(tasks)]
        IN  /\ task.kind = "batch"
            /\ task.ids # <<>>
            /\ IdSet(task.ids) \subseteq IdSet(last.pre)
            /\ task.reqs = {[id |-> task.ids[1], st |-> "req"]}
            /\ IdSet(task.ids) \cap IdSet(entries) = {}
            /\ IdSet(task.ids) \subseteq pendingDeleteIds
            /\ entries = FilterOut(last.pre, IdSet(task.ids))
            /\ selectedEntryIds = {}

\* A batch of more than one target awaits its first request.
C29_Witness ==
    /\ last.op = "hide" /\ last.by = "batch"
    /\ Len(tasks[Len(tasks)].ids) > 1


----------------------------------------------------------------------------
\* Properties of the fetch boundary.

\* C30: fetchGalleryPage turns both response shapes into one page. A legacy
\* array gives items = the array, hasMore = (its length >= the limit
\* asked for) and nextCursor = the id of its last item, null when it is
\* empty; an object gives its items (the empty list when there is no
\* array), hasMore as a boolean and its nextCursor, null when there is
\* none; a response that is not ok gives a failure and no page.
C30_PageNormalised ==
    (call.request.method = "GET" /\ call.pc = "done") =>
        LET ok == call.resp.ok
            body == call.resp.body
            page == call.result.page
        IN  /\ ~ok => (call.result.failed /\ page = NoPage)
            /\ ok => ~call.result.failed
            /\ (ok /\ body.t = "array") =>
                 /\ page.items = body.v
                 /\ page.hasMore <=> Len(body.v) >= PAGE_SIZE
                 /\ body.v = <<>> => page.nextCursor = JsNull
                 /\ body.v # <<>> =>
                      page.nextCursor =
                          Js("string", IdToString(body.v[Len(body.v)]))
            /\ (ok /\ body.t = "object") =>
                 /\ body.items.t = "array" => page.items = body.items.v
                 /\ body.items.t # "array" => page.items = <<>>
                 /\ page.hasMore \in BOOLEAN
                 /\ page.hasMore <=>
                        body.hasMore \in {Js("boolean", TRUE),
                                          Js("number", 1),
                                          Js("string", <<"n", "o">>)}
                 /\ page.nextCursor =
                        IF body.nextCursor \in {Undefined, JsNull,
                                                Js("string", <<>>)}
                        THEN JsNull ELSE body.nextCursor

\* A legacy array of exactly the limit's length has been normalised.
C30_Witness ==
    /\ call.request.method = "GET" /\ call.pc = "done"
    /\ call.resp.ok
    /\ call.resp.body.t = "array"
    /\ Len(call.resp.body.v) = PAGE_SIZE
    /\ call.result.page.hasMore
    /\ call.result.page.nextCursor # JsNull


\* C31: with every delete request settling in the end, every id that
\* enters pendingDeleteIds leaves it again: each single delete and each
\* batch item reaches finalizeDeleteSuccess or restoreHiddenEntry, in any
\* interleaving with load and loadMore.
C31_PendingEventuallyCleared ==
    \A id \in {MaxId - 1, MaxId} :
        (id \in pendingDeleteIds) ~> (id \notin pendingDeleteIds)

\* A batch item has just been settled, with a page fetch still in flight,
\* and nothing is pending any more.
C31_Witness ==
    /\ last.op \in {"restore", "finalize"}
    /\ last.by = "batch"
    /\ pendingDeleteIds = {}
    /\ \E t \in DOMAIN tasks : tasks[t].kind \in {"load", "more"}


\* C32: the visible list is strictly descending by id in every reachable
\* state: after top-page merges, loadMore appends, and rollbacks of failed
\* single and batch deletes.
C32_ListStrictlyDescending == StrictlyDescending(entries)


\* C33: with nothing ingested, whenever no load and no loadMore fetch is
\* outstanding, every stored entry that is not pending and whose id is at or
\* above the cursor (every stored entry, once the cursor is null and hasMore
\* is false) is in the visible list: no page is skipped.
C33_GapFreeAboveCursor ==
    (/\ PageTasks = {}
     /\ paginationCursor # NULL \/ ~hasMore)
    => \A id \in store \ pendingDeleteIds :
          (paginationCursor = NULL \/ id >= paginationCursor)
              => id \in IdSet(entries)


\* C34: the loading flags never stick: whenever no load fetch and no
\* loadMore fetch is outstanding, loading and loadingMore are both false,
\* after a success and after a failure alike.
C34_FlagsNeverStick ==
    PageTasks = {} => ~loading /\ ~loadingMore

\* The last outstanding fetch, a loadMore, has just failed.
C34_Witness ==
    /\ PageTasks = {}
    /\ last.op = "error"
    /\ last.by = "more"


\* C35: in every reachable state selectedIndex is -1 or a valid index of
\* the visible list, across optimistic hides, rollbacks, top-page merges
\* that shorten or replace the list, and loadMore.
C35_SelectedIndexValid ==
    selectedIndex = 0 - 1
        \/ (0 <= selectedIndex /\ selectedIndex < Len(entries))


\* C36: over a store that does not change, after the initial load and with
\* every fetch answered, the loadMore triggers reach hasMore = false; from
\* then on loadMore issues no fetch, and the visible list holds every stored
\* entry exactly once.
C36_ScrollReachesTheEnd ==
    /\ <>(~hasMore)
    /\ [][~hasMore => tasks' = tasks]_vars
    /\ [](~hasMore => /\ tasks = <<>>
                      /\ IdSet(entries) = store
                      /\ Len(entries) = Cardinality(store))

\* The end was reached by a loadMore, on a list of three entries or more.
C36_Witness ==
    /\ ~hasMore
    /\ last.op = "more"
    /\ Len(entries) >= 3
    /\ IdSet(entries) = store

============================================================================
